---------------------------- MODULE Spec2Model ----------------------------
(***************************************************************************)
(* Model of pywikibot/throttle.py: the Throttle object of one process      *)
(* (locks, timestamps, delay computation, lag) and the shared registry     *)
(* file throttle.ctrl through which processes discover each other.         *)
(*                                                                         *)
(* Time is the value of time.time() in whole seconds; the clock advances   *)
(* in steps of Quantum seconds.  A Python float that a whole number of     *)
(* seconds stands for keeps its type where the type is observable (the     *)
(* text written to the registry file).                                     *)
(***************************************************************************)
EXTENDS Integers, Sequences, FiniteSets, TLC

(***************************************************************************)
(* Bounds of the model.                                                    *)
(***************************************************************************)
Quantum == 200
MaxTicks == 3
NThreads == 2
MaxCalls == 3

MaxTime == MaxTicks * Quantum
Threads == 1 .. NThreads
NoThread == 0

(***************************************************************************)
(* Program constants (Throttle.__init__) and the configuration values the  *)
(* module reads from pywikibot.config.                                     *)
(***************************************************************************)
checkdelay == 300
dropdelay == 600
releasepid == 1200

minthrottle == 1 * Quantum
maxthrottle == 2 * Quantum
put_throttle == 2 * Quantum
retry_wait == 1 * Quantum
retry_max == 2 * Quantum

Sites == <<"wiki1", "wiki2">>
SiteSet == {Sites[i] : i \in 1 .. Len(Sites)}
SiteRank(s) == CHOOSE i \in 1 .. Len(Sites) : Sites[i] = s

Max(a, b) == IF a >= b THEN a ELSE b
Min(a, b) == IF a <= b THEN a ELSE b

(***************************************************************************)
(* Registry Store.  A file is a sequence of lines, a line the sequence of  *)
(* the fields line.split(' ') yields.  A field is the text of an int, of   *)
(* a float or of anything else.                                            *)
(***************************************************************************)
IntField(n) == [k |-> "int", n |-> n, s |-> ""]
FloatField(n) == [k |-> "float", n |-> n, s |-> ""]
StrField(s) == [k |-> "str", n |-> 0, s |-> s]

\* ProcEntry(pid, time, site); tfloat tells a float time from an int time.
ProcEntry(p, t, f, s) == [pid |-> p, time |-> t, tfloat |-> f, site |-> s]

\* Mutant: the time is written as a whole number of seconds.
FORMAT_LINE_IntTime(p) ==
    << IntField(p.pid), IntField(p.time), StrField(p.site) >>

\* FORMAT_LINE.format_map(p._asdict())
FORMAT_LINE(p) ==
    << IntField(p.pid),
       IF p.tfloat THEN FloatField(p.time) ELSE IntField(p.time),
       StrField(p.site) >>

\* The try block of _read_file: three fields, int(_pid), int(float(_time)).
WellFormed(line) ==
    /\ Len(line) = 3
    /\ line[1].k = "int"
    /\ line[2].k \in {"int", "float"}

ParseLine(line) ==
    ProcEntry(line[1].n, line[2].n, FALSE,
              IF line[3].k = "str" THEN line[3].s ELSE "?")

RECURSIVE ParseLines(_)
ParseLines(lines) ==
    IF lines = << >> THEN << >>
    ELSE IF WellFormed(Head(lines))
         THEN << ParseLine(Head(lines)) >> \o ParseLines(Tail(lines))
         ELSE ParseLines(Tail(lines))

\* Mutant: one line that does not parse makes the whole file unread.
_read_file_strict(contents, canRead, raise_exc, gpid) ==
    IF ~canRead
    THEN IF raise_exc /\ gpid # 0
         THEN [raised |-> TRUE, entries |-> << >>]
         ELSE [raised |-> FALSE, entries |-> << >>]
    ELSE [raised |-> FALSE,
          entries |-> IF \A i \in 1 .. Len(contents) : WellFormed(contents[i])
                      THEN ParseLines(contents) ELSE << >>]

\* Mutant: the error is raised on the first access only.
_read_file_first(contents, canRead, raise_exc, gpid) ==
    IF ~canRead
    THEN [raised |-> raise_exc /\ gpid = 0, entries |-> << >>]
    ELSE [raised |-> FALSE, entries |-> ParseLines(contents)]

\* Mutant: the error is never raised.
_read_file_quiet(contents, canRead, raise_exc, gpid) ==
    IF ~canRead
    THEN [raised |-> FALSE, entries |-> << >>]
    ELSE [raised |-> FALSE, entries |-> ParseLines(contents)]

\* _read_file: "raised" stands for the IOError being re-raised.
_read_file(contents, canRead, raise_exc, gpid) ==
    IF ~canRead
    THEN IF raise_exc /\ gpid # 0
         THEN [raised |-> TRUE, entries |-> << >>]
         ELSE [raised |-> FALSE, entries |-> << >>]
    ELSE [raised |-> FALSE, entries |-> ParseLines(contents)]

\* key=lambda p: (p.pid, p.site)
KeyLeq(a, b) ==
    \/ a.pid < b.pid
    \/ a.pid = b.pid /\ SiteRank(a.site) <= SiteRank(b.site)

\* list.sort is stable: an entry goes after the entries whose key is <= its own.
RECURSIVE InsertSorted(_, _)
InsertSorted(sorted, e) ==
    IF sorted = << >> THEN << e >>
    ELSE IF KeyLeq(Head(sorted), e)
         THEN << Head(sorted) >> \o InsertSorted(Tail(sorted), e)
         ELSE << e >> \o sorted

RECURSIVE SortEntries(_)
SortEntries(processes) ==
    IF processes = << >> THEN << >>
    ELSE InsertSorted(SortEntries(SubSeq(processes, 1, Len(processes) - 1)),
                      processes[Len(processes)])

\* The files a _write_file call can leave.  When no IOError occurs, the new
\* contents.  When one is suppressed: the old contents if open() raised it;
\* the first lines of the new contents, or none, if a write or the close
\* raised it, open(..., 'w') having truncated the file.
WriteOutcomes(contents, canWrite, lines) ==
    IF canWrite
    THEN {lines}
    ELSE {contents} \cup {SubSeq(lines, 1, n) : n \in 0 .. Len(lines) - 1}

\* Mutant: the file is opened for appending.
_write_file_append(contents, canWrite, processes) ==
    IF canWrite
    THEN contents \o
         [i \in 1 .. Len(processes) |-> FORMAT_LINE(SortEntries(processes)[i])]
    ELSE contents

\* _write_file: the new contents of the file; a failing open is suppressed.
_write_file(contents, canWrite, processes) ==
    IF canWrite
    THEN [i \in 1 .. Len(processes) |-> FORMAT_LINE(SortEntries(processes)[i])]
    ELSE contents


(***************************************************************************)
(* Process Registry: the loop of checkMultiplicity over the entries read.  *)
(* gpid is the module global pid, 0 for its initial value False.           *)
(***************************************************************************)
\* my_pid = pid or 1
StartPid(gpid) == IF gpid # 0 THEN gpid ELSE 1

\* Mutant: every entry of the site that has not expired is counted.
ScanStepNoWindow(acc, proc, tnow, gpid, mysite) ==
    IF tnow - proc.time > releasepid
    THEN acc
    ELSE [ count |-> IF /\ proc.site = mysite
                        /\ proc.pid # gpid
                     THEN acc.count + 1 ELSE acc.count,
           processes |-> IF proc.site # mysite \/ proc.pid # gpid
                         THEN Append(acc.processes, proc)
                         ELSE acc.processes,
           my_pid |-> IF gpid = 0 /\ proc.pid >= acc.my_pid
                      THEN proc.pid + 1 ELSE acc.my_pid ]

\* Mutant: expired entries are not skipped.
ScanStepKeepExpired(acc, proc, tnow, gpid, mysite) ==
    [ count |-> IF /\ tnow - proc.time <= dropdelay
                   /\ proc.site = mysite
                   /\ proc.pid # gpid
                THEN acc.count + 1 ELSE acc.count,
      processes |-> IF proc.site # mysite \/ proc.pid # gpid
                    THEN Append(acc.processes, proc)
                    ELSE acc.processes,
      my_pid |-> IF gpid = 0 /\ proc.pid >= acc.my_pid
                 THEN proc.pid + 1 ELSE acc.my_pid ]

\* Mutant: the entry read for this pid and site is kept beside the new one.
ScanStepKeepOwn(acc, proc, tnow, gpid, mysite) ==
    IF tnow - proc.time > releasepid
    THEN acc
    ELSE [ count |-> IF /\ tnow - proc.time <= dropdelay
                        /\ proc.site = mysite
                        /\ proc.pid # gpid
                     THEN acc.count + 1 ELSE acc.count,
           processes |-> Append(acc.processes, proc),
           my_pid |-> IF gpid = 0 /\ proc.pid >= acc.my_pid
                      THEN proc.pid + 1 ELSE acc.my_pid ]

\* Mutant: an entry that is too old to be counted is dropped from the file.
ScanStepDropStale(acc, proc, tnow, gpid, mysite) ==
    IF tnow - proc.time > releasepid
    THEN acc
    ELSE [ count |-> IF /\ tnow - proc.time <= dropdelay
                        /\ proc.site = mysite
                        /\ proc.pid # gpid
                     THEN acc.count + 1 ELSE acc.count,
           processes |-> IF /\ proc.site # mysite \/ proc.pid # gpid
                            /\ tnow - proc.time <= dropdelay
                         THEN Append(acc.processes, proc)
                         ELSE acc.processes,
           my_pid |-> IF gpid = 0 /\ proc.pid >= acc.my_pid
                      THEN proc.pid + 1 ELSE acc.my_pid ]

\* Mutant: the pid of an expired entry is taken as used.
ScanStepExpiredPid(acc, proc, tnow, gpid, mysite) ==
    IF tnow - proc.time > releasepid
    THEN [acc EXCEPT !.my_pid = IF gpid = 0 /\ proc.pid >= acc.my_pid
                                THEN proc.pid + 1 ELSE acc.my_pid]
    ELSE [ count |-> IF /\ tnow - proc.time <= dropdelay
                        /\ proc.site = mysite
                        /\ proc.pid # gpid
                     THEN acc.count + 1 ELSE acc.count,
           processes |-> IF proc.site # mysite \/ proc.pid # gpid
                         THEN Append(acc.processes, proc)
                         ELSE acc.processes,
           my_pid |-> IF gpid = 0 /\ proc.pid >= acc.my_pid
                      THEN proc.pid + 1 ELSE acc.my_pid ]

ScanStep(acc, proc, tnow, gpid, mysite) ==
    IF tnow - proc.time > releasepid
    THEN acc
    ELSE [ count |-> IF /\ tnow - proc.time <= dropdelay
                        /\ proc.site = mysite
                        /\ proc.pid # gpid
                     THEN acc.count + 1 ELSE acc.count,
           processes |-> IF proc.site # mysite \/ proc.pid # gpid
                         THEN Append(acc.processes, proc)
                         ELSE acc.processes,
           my_pid |-> IF gpid = 0 /\ proc.pid >= acc.my_pid
                      THEN proc.pid + 1 ELSE acc.my_pid ]

RECURSIVE Scan(_, _, _, _)
Scan(entries, tnow, gpid, mysite) ==
    IF entries = << >>
    THEN [count |-> 1, processes |-> << >>,
          my_pid |-> StartPid(gpid)]
    ELSE ScanStep(Scan(SubSeq(entries, 1, Len(entries) - 1), tnow, gpid, mysite),
                  entries[Len(entries)], tnow, gpid, mysite)

\* Mutant: a process that has no pid takes pid 1.
AssignPidOne(gpid, my_pid) == IF gpid = 0 THEN 1 ELSE gpid

\* if not pid: pid = my_pid
AssignPid(gpid, my_pid) == IF gpid = 0 THEN my_pid ELSE gpid

\* Mutant: the entry is built before the global pid is assigned.
OwnPidStale(gpid, newpid) == gpid

\* The pid of the entry checkMultiplicity appends: the global pid, read
\* after it has been assigned.
OwnPid(gpid, newpid) == newpid

\* Mutant: the entry of the process is appended on its first check only.
CMReadNoReassert(contents, canRd, gpid, mysite, tnow) ==
    LET rd == _read_file(contents, canRd, TRUE, gpid)
        sc == Scan(rd.entries, tnow, gpid, mysite)
        newpid == AssignPid(gpid, sc.my_pid)
    IN  IF rd.raised
        THEN [raised |-> TRUE, pid |-> gpid, processes |-> << >>,
              checktime |-> 0, count |-> 0]
        ELSE [raised |-> FALSE, pid |-> newpid,
              processes |-> IF gpid = 0
                            THEN Append(sc.processes,
                                        ProcEntry(OwnPid(gpid, newpid), tnow,
                                                  TRUE, mysite))
                            ELSE sc.processes,
              checktime |-> tnow, count |-> sc.count]

\* Mutant: the count does not include the process itself.
CMReadPeersOnly(contents, canRd, gpid, mysite, tnow) ==
    LET rd == _read_file(contents, canRd, TRUE, gpid)
        sc == Scan(rd.entries, tnow, gpid, mysite)
        newpid == AssignPid(gpid, sc.my_pid)
    IN  IF rd.raised
        THEN [raised |-> TRUE, pid |-> gpid, processes |-> << >>,
              checktime |-> 0, count |-> 0]
        ELSE [raised |-> FALSE, pid |-> newpid,
              processes |-> Append(sc.processes,
                                   ProcEntry(OwnPid(gpid, newpid), tnow, TRUE,
                                             mysite)),
              checktime |-> tnow, count |-> sc.count - 1]

\* checkMultiplicity from its start to the call of _write_file: the read,
\* the loop, the pid of the process, and the list it is about to write.
CMRead(contents, canRd, gpid, mysite, tnow) ==
    LET rd == _read_file(contents, canRd, TRUE, gpid)
        sc == Scan(rd.entries, tnow, gpid, mysite)
        newpid == AssignPid(gpid, sc.my_pid)
    IN  IF rd.raised
        THEN [raised |-> TRUE, pid |-> gpid, processes |-> << >>,
              checktime |-> 0, count |-> 0]
        ELSE [raised |-> FALSE, pid |-> newpid,
              processes |-> Append(sc.processes,
                                   ProcEntry(OwnPid(gpid, newpid), tnow, TRUE,
                                             mysite)),
              checktime |-> tnow, count |-> sc.count]

\* Mutant: the IOError of the write is not suppressed.
checkMultiplicityLoud(contents, canRd, canWr, gpid, mysite, tnow) ==
    LET r == CMRead(contents, canRd, gpid, mysite, tnow)
    IN  [raised |-> r.raised \/ ~canWr, pid |-> r.pid,
         file |-> IF r.raised THEN contents
                  ELSE _write_file(contents, canWr, r.processes),
         checktime |-> r.checktime, count |-> r.count]

\* The body of checkMultiplicity under self.lock, from the state it reads to
\* the state it leaves; raised when _read_file re-raises the IOError.
checkMultiplicity(contents, canRd, canWr, gpid, mysite, tnow) ==
    LET r == CMRead(contents, canRd, gpid, mysite, tnow)
    IN  [raised |-> r.raised, pid |-> r.pid,
         file |-> IF r.raised THEN contents
                  ELSE _write_file(contents, canWr, r.processes),
         checktime |-> r.checktime, count |-> r.count]

\* Mutant: the entries of this process are kept.
DropKeepOwn(entries, tnow, gpid) ==
    SelectSeq(entries, LAMBDA p : tnow - p.time <= releasepid)

\* drop: the entries kept, and the file rewritten from them.
DropKeep(entries, tnow, gpid) ==
    SelectSeq(entries, LAMBDA p : tnow - p.time <= releasepid /\ p.pid # gpid)

drop(contents, canRd, canWr, gpid, tnow) ==
    _write_file(contents, canWr,
                DropKeep(_read_file(contents, canRd, FALSE, gpid).entries,
                         tnow, gpid))

(***************************************************************************)
(* Delay Calculator.                                                       *)
(***************************************************************************)
\* math.log(1 + requestsize) / math.log(2.0), exact when 1 + requestsize is
\* a power of two; the request sizes of the model are such sizes.
RECURSIVE Log2(_)
Log2(n) == IF n <= 1 THEN 0 ELSE 1 + Log2(n \div 2)

RequestSizes == {1, 3}

\* The quotient of line 252 is a double: math.log gives the double nearest
\* to k * ln 2 for 1 + requestsize = 2^k, and the division rounds once
\* more.  For k up to 30 the result is k itself, except for k = 29, where
\* it is the next double above 29 (29.000000000000004).  QuotientUlps is
\* the distance of the result from k in units in the last place.
QuotientUlps(k) == IF k = 29 THEN 1 ELSE 0

\* Mutant: log2 of the size, not of 1 + size.
NextMultiplicityOfSize(requestsize) ==
    [whole |-> Log2(requestsize), ulps |-> QuotientUlps(Log2(requestsize))]

\* math.log(1 + requestsize) / math.log(2.0) for 1 + requestsize a power of
\* two: the whole number it is near to and its distance from it.
NextMultiplicity(requestsize) ==
    [whole |-> Log2(1 + requestsize),
     ulps |-> QuotientUlps(Log2(1 + requestsize))]

\* Mutant: the lower bound is mindelay, whatever the size of the last request.
getDelayNoSize(write, dly, wdly, mind, maxd, multiply, nextm, procm) ==
    LET thisdelay == IF write THEN wdly ELSE dly
        clamped == IF thisdelay < mind THEN mind
                   ELSE IF thisdelay > maxd THEN maxd
                   ELSE thisdelay
    IN  IF ~multiply THEN thisdelay ELSE clamped * procm

\* Mutant: no lower bound.
getDelayNoFloor(write, dly, wdly, mind, maxd, multiply, nextm, procm) ==
    LET thisdelay == IF write THEN wdly ELSE dly
        clamped == IF thisdelay > maxd THEN maxd ELSE thisdelay
    IN  IF ~multiply THEN thisdelay ELSE clamped * procm

\* Mutant: the delay is clamped and multiplied whatever multiplydelay is.
getDelayAlwaysMultiplied(write, dly, wdly, mind, maxd, multiply, nextm, procm) ==
    LET thisdelay == IF write THEN wdly ELSE dly
        clamped == IF thisdelay < mind * nextm THEN mind * nextm
                   ELSE IF thisdelay > maxd THEN maxd
                   ELSE thisdelay
    IN  clamped * procm

\* getDelay after the refresh decision.
getDelay(write, dly, wdly, mind, maxd, multiply, nextm, procm) ==
    LET thisdelay == IF write THEN wdly ELSE dly
        clamped == IF thisdelay < mind * nextm THEN mind * nextm
                   ELSE IF thisdelay > maxd THEN maxd
                   ELSE thisdelay
    IN  IF ~multiply THEN thisdelay ELSE clamped * procm

\* Mutant: the refresh is due as soon as checkdelay has passed.
RefreshDueAtBoundary(multiply, tnow, chk) ==
    multiply /\ tnow >= chk + checkdelay

\* Mutant: the refresh does not depend on multiplydelay.
RefreshDueUnguarded(multiply, tnow, chk) == tnow > chk + checkdelay

\* Mutant: the registry is refreshed at every delay computation.
RefreshDueAlways(multiply, tnow, chk) == multiply

\* The condition of getDelay under which it calls checkMultiplicity.
RefreshDue(multiply, tnow, chk) == multiply /\ tnow > chk + checkdelay

\* Mutant: ago is taken from the epoch, not from the last access.
waittimeNoLast(thisdelay, tnow, last) == Max(0, thisdelay - tnow)

\* waittime: max(0.0, thisdelay - ago)
waittime(thisdelay, tnow, last) == Max(0, thisdelay - (tnow - last))

(***************************************************************************)
(* Lag Controller: the delay lag() chooses before it subtracts the time    *)
(* spent on the lock.  lagtime 0 stands for None; lagtime values are       *)
(* multiples of 5, for which waittime / 5 is a whole number.               *)
(***************************************************************************)
\* Mutant: the hint is not divided by 5.
LagDelayFullHint(retryAfter, lagtime) ==
    LET waittime0 == IF lagtime # 0 THEN lagtime ELSE retry_wait
        waittime1 == IF retryAfter # 0
                     THEN Max(retryAfter, waittime0)
                     ELSE waittime0
    IN  Min(waittime1, retry_max)

LagDelay(retryAfter, lagtime) ==
    LET waittime0 == IF lagtime # 0 THEN lagtime ELSE retry_wait
        waittime1 == IF retryAfter # 0
                     THEN Max(retryAfter, waittime0 \div 5)
                     ELSE waittime0
    IN  Min(waittime1, retry_max)


(***************************************************************************)
(* State.                                                                  *)
(***************************************************************************)
VARIABLES
    now,                 \* time.time()
    ctrlfile,            \* contents of throttle.ctrl
    pid,                 \* the module global pid of this process (0: False)
    mindelay, maxdelay, writedelay, delay,
    last_read, last_write, next_multiplicity, retry_after,
    checktime, multiplydelay, process_multiplicity,
    owner,               \* the thread holding each RLock
    pc, call,            \* per thread: position and the call it is running
    thisdelay, wakeAt, started,   \* per thread: locals of waittime, wait, lag
    lastRet,             \* per access kind: when __call__ last returned
    calls,               \* the number of calls made so far
    pids,                \* per process: its module global pid (0: False)
    thr,                 \* per process and site: the Throttle of that site
    rpc,                 \* per process: the registry rewrite it has pending
    lastOpen,            \* per process: how its last _read_file call went
    input, output        \* arguments and result of a function applied alone

registry == << now, ctrlfile, pid >>
throttle == << mindelay, maxdelay, writedelay, delay, last_read,
               last_write, next_multiplicity, retry_after, checktime,
               multiplydelay, process_multiplicity >>
threads == << owner, pc, call, thisdelay, wakeAt, started, lastRet >>
procvars == << pids, thr, rpc, lastOpen >>
pure == << input, output >>
others == << procvars, pure >>
vars == << registry, throttle, threads, calls, procvars, pure >>

MySite == Sites[1]
PeerPid == 7
LockNames == {"lock", "lock_write", "lock_read"}
NoCall == [op |-> "none", write |-> FALSE, size |-> 0, lagtime |-> 0,
           inLag |-> FALSE]
Kind(write) == IF write THEN "write" ELSE "read"

\* Mutant: one lock for both kinds, the lock of checkMultiplicity and lag.
ThisLockSingle(write) == "lock"

\* lock = self.lock_write if write else self.lock_read
ThisLock(write) == IF write THEN "lock_write" ELSE "lock_read"

\* with self.lock: in lag()
LagLock == "lock"

\* Threads are interchangeable: a call is made on the first idle thread.
Idle(t) ==
    /\ pc[t] = "idle"
    /\ \A u \in Threads : u < t => pc[u] # "idle"

\* Mutant: the lock is taken whoever holds it.
CanAcquireAny(l, t) == TRUE

\* RLock.acquire succeeds when the lock is free or held by the caller.
CanAcquire(l, t) == owner[l] \in {NoThread, t}

(***************************************************************************)
(* The environment: the clock, a peer process refreshing its entry, and    *)
(* http.request recording a Retry-After value.  Whether an open() of the   *)
(* registry file succeeds is an input of the step that opens it.           *)
(***************************************************************************)
Tick ==
    /\ now + Quantum <= MaxTime
    /\ now' = now + Quantum
    /\ UNCHANGED << ctrlfile, pid, throttle, threads, calls >>
    /\ UNCHANGED others

\* The clock advancing by half a step, for the specification of one thread:
\* time.time() then takes values at which now = checktime + checkdelay.
TickHalf ==
    /\ now + Quantum \div 2 <= MaxTime
    /\ now' = now + Quantum \div 2
    /\ UNCHANGED << ctrlfile, pid, throttle, threads, calls >>
    /\ UNCHANGED others

\* A peer's checkMultiplicity for the same site, as this process sees it.
PeerRefresh ==
    /\ calls < MaxCalls
    /\ calls' = calls + 1
    /\ LET r == checkMultiplicity(ctrlfile, TRUE, TRUE, PeerPid, MySite, now)
       IN  ctrlfile' = r.file
    /\ UNCHANGED << now, pid, throttle, threads >>
    /\ UNCHANGED others

RetryAfters == {0, Quantum}

SetRetryAfter ==
    /\ calls < MaxCalls
    /\ calls' = calls + 1
    /\ \E v \in RetryAfters : v # retry_after /\ retry_after' = v
    /\ UNCHANGED << registry, mindelay, maxdelay, writedelay, delay,
                    last_read, last_write, next_multiplicity, checktime,
                    multiplydelay, process_multiplicity, threads >>
    /\ UNCHANGED others

(***************************************************************************)
(* Throttle.setDelays and Throttle.__init__.  An argument 0 stands for     *)
(* None (Python's "x or default" takes the default for both).              *)
(***************************************************************************)
\* Mutant: the delay count is left to start at the epoch.
setDelaysNoRestart(dArg, wArg, absolute, mind, maxd, tnow) ==
    LET d == IF dArg # 0 THEN dArg ELSE mind
        w == IF wArg # 0 THEN wArg ELSE put_throttle
        newmin == IF absolute THEN d ELSE mind
        newmax == IF absolute THEN d ELSE maxd
    IN  [ mindelay |-> newmin, maxdelay |-> newmax, delay |-> d,
          writedelay |-> Min(Max(newmin, w), newmax), last |-> 0 ]

\* Mutant: the write delay is bounded below only.
setDelaysNoCeiling(dArg, wArg, absolute, mind, maxd, tnow) ==
    LET d == IF dArg # 0 THEN dArg ELSE mind
        w == IF wArg # 0 THEN wArg ELSE put_throttle
        newmin == IF absolute THEN d ELSE mind
        newmax == IF absolute THEN d ELSE maxd
    IN  [ mindelay |-> newmin, maxdelay |-> newmax, delay |-> d,
          writedelay |-> Max(newmin, w), last |-> tnow ]

setDelays(dArg, wArg, absolute, mind, maxd, tnow) ==
    LET d == IF dArg # 0 THEN dArg ELSE mind
        w == IF wArg # 0 THEN wArg ELSE put_throttle
        newmin == IF absolute THEN d ELSE mind
        newmax == IF absolute THEN d ELSE maxd
    IN  [ mindelay |-> newmin, maxdelay |-> newmax, delay |-> d,
          writedelay |-> Min(Max(newmin, w), newmax), last |-> tnow ]

DelayArgs == {0, 3 * Quantum}
WriteDelayArgs == {0, Quantum}

\* Throttle.__init__(site, writedelay=wArg, multiplydelay=multiply) run at
\* time tnow on the registry contents: the fields it leaves.  The writedelay
\* argument is stored (line 55) and then overwritten by setDelays() (line 75).
__init__(contents, canRd, canWr, gpid, mysite, tnow, wArg, multiply) ==
    LET mind == minthrottle
        maxd == maxthrottle
        cm == checkMultiplicity(contents, canRd, canWr, gpid, mysite, tnow)
        sd == setDelays(0, 0, FALSE, mind, maxd, tnow)
    IN  [ raised |-> multiply /\ cm.raised,
          pid |-> IF multiply THEN cm.pid ELSE gpid,
          file |-> IF multiply THEN cm.file ELSE contents,
          checktime |-> IF multiply THEN cm.checktime ELSE 0,
          process_multiplicity |-> IF multiply THEN cm.count ELSE 0,
          mindelay |-> sd.mindelay, maxdelay |-> sd.maxdelay,
          delay |-> sd.delay, writedelay |-> sd.writedelay,
          last_read |-> sd.last, last_write |-> sd.last,
          next_multiplicity |-> 1, retry_after |-> 0 ]

\* The variables of the other specifications, at rest.
NProcs == 2
Procs == 1 .. NProcs
NoThrottle == [built |-> FALSE, multiplydelay |-> FALSE, checktime |-> 0,
               process_multiplicity |-> 0]
NoRewrite == [op |-> "none", site |-> "", processes |-> << >>, count |-> 0]
NoOpen == [called |-> FALSE, opened |-> FALSE, raise_exc |-> FALSE,
           hadpid |-> FALSE, raised |-> FALSE]

NoProcesses ==
    /\ pids = [p \in Procs |-> 0]
    /\ thr = [p \in Procs |-> [s \in SiteSet |-> NoThrottle]]
    /\ rpc = [p \in Procs |-> NoRewrite]
    /\ lastOpen = [p \in Procs |-> NoOpen]

NoFunction ==
    /\ input = << >>
    /\ output = << >>

\* The state after the process has constructed its Throttle at time 0, on a
\* registry that is empty or holds the entry of a peer.
InitFiles == { << >>, << FORMAT_LINE(ProcEntry(PeerPid, 0, FALSE, MySite)) >> }

Init ==
    /\ now = 0
    /\ \E contents \in InitFiles, canRd \in BOOLEAN, canWr \in BOOLEAN,
          wArg \in WriteDelayArgs, multiply \in BOOLEAN :
          LET th == __init__(contents, canRd, canWr, 0, MySite, 0, wArg, multiply)
          IN  /\ ~th.raised
              /\ multiplydelay = multiply
              /\ pid = th.pid
              /\ ctrlfile = th.file
              /\ checktime = th.checktime
              /\ process_multiplicity = th.process_multiplicity
              /\ mindelay = th.mindelay
              /\ maxdelay = th.maxdelay
              /\ delay = th.delay
              /\ writedelay = th.writedelay
              /\ last_read = th.last_read
              /\ last_write = th.last_write
              /\ next_multiplicity = th.next_multiplicity
              /\ retry_after = th.retry_after
    /\ owner = [l \in LockNames |-> NoThread]
    /\ pc = [t \in Threads |-> "idle"]
    /\ call = [t \in Threads |-> NoCall]
    /\ thisdelay = [t \in Threads |-> 0]
    /\ wakeAt = [t \in Threads |-> 0]
    /\ started = [t \in Threads |-> 0]
    /\ lastRet = [k \in {"read", "write"} |-> -1]
    /\ calls = 0
    /\ NoProcesses
    /\ NoFunction

SetDelays(t) ==
    /\ Idle(t)
    /\ CanAcquire("lock", t)
    /\ \E dArg \in DelayArgs, wArg \in WriteDelayArgs, absolute \in BOOLEAN :
          LET sd == setDelays(dArg, wArg, absolute, mindelay, maxdelay, now)
          IN  /\ mindelay' = sd.mindelay
              /\ maxdelay' = sd.maxdelay
              /\ delay' = sd.delay
              /\ writedelay' = sd.writedelay
              /\ last_read' = sd.last
              /\ last_write' = sd.last
    /\ UNCHANGED << registry, next_multiplicity, retry_after, checktime,
                    multiplydelay, process_multiplicity, threads >>
    /\ calls < MaxCalls
    /\ calls' = calls + 1
    /\ UNCHANGED others

\* Mutant: drop() leaves checktime as it is.
DropKeepsChecktime(t) ==
    /\ Idle(t)
    /\ \E canRd \in BOOLEAN, canWr \in BOOLEAN :
          ctrlfile' = drop(ctrlfile, canRd, canWr, pid, now)
    /\ UNCHANGED << now, pid, mindelay, maxdelay,
                    writedelay, delay, last_read, last_write,
                    next_multiplicity, retry_after, checktime, multiplydelay,
                    process_multiplicity, threads >>
    /\ calls < MaxCalls
    /\ calls' = calls + 1
    /\ UNCHANGED others

(***************************************************************************)
(* Throttle.drop: no lock is taken.                                        *)
(***************************************************************************)
Drop(t) ==
    /\ Idle(t)
    /\ checktime' = 0
    /\ \E canRd \in BOOLEAN, canWr \in BOOLEAN :
          ctrlfile' = drop(ctrlfile, canRd, canWr, pid, now)
    /\ UNCHANGED << now, pid, mindelay, maxdelay,
                    writedelay, delay, last_read, last_write,
                    next_multiplicity, retry_after, multiplydelay,
                    process_multiplicity, threads >>
    /\ calls < MaxCalls
    /\ calls' = calls + 1
    /\ UNCHANGED others

(***************************************************************************)
(* Throttle.__call__ and Throttle.waittime, step by step.                  *)
(*   acquire  : waiting for lock_read / lock_write                         *)
(*   refresh  : getDelay found the refresh due; in checkMultiplicity,      *)
(*              waiting for self.lock                                      *)
(*   delay    : in getDelay after the refresh decision, then waittime      *)
(*   sleep    : in wait()                                                  *)
(*   raised   : the call ended with the IOError of _read_file              *)
(***************************************************************************)
\* getDelay up to its decision to refresh: where the call goes next.
EnterGetDelay ==
    IF RefreshDue(multiplydelay, now, checktime) THEN "refresh" ELSE "delay"

\* A thread is in the wait of lag(), holding self.lock.
LagWaiting == \E u \in Threads : pc[u] = "lagsleep" /\ wakeAt[u] > now

\* A call of the throttle; inLag records, for the properties, whether the
\* call was made while a thread was in the wait of lag().

CallAcquire(t) ==
    /\ Idle(t)
    /\ \E size \in RequestSizes, write \in BOOLEAN :
          call' = [call EXCEPT ![t] = [op |-> "acquire", write |-> write,
                                       size |-> size, lagtime |-> 0,
                                       inLag |-> LagWaiting]]
    /\ pc' = [pc EXCEPT ![t] = "acquire"]
    /\ UNCHANGED << registry, throttle, owner, thisdelay, wakeAt, started, lastRet >>
    /\ calls < MaxCalls
    /\ calls' = calls + 1
    /\ UNCHANGED others

AcquireLock(t) ==
    /\ pc[t] = "acquire"
    /\ CanAcquire(ThisLock(call[t].write), t)
    /\ owner' = [owner EXCEPT ![ThisLock(call[t].write)] = t]
    /\ pc' = [pc EXCEPT ![t] = EnterGetDelay]
    /\ UNCHANGED << registry, throttle, call, thisdelay, wakeAt, started, lastRet >>
    /\ UNCHANGED calls
    /\ UNCHANGED others

CallWaitTime(t) ==
    /\ Idle(t)
    /\ \E write \in BOOLEAN :
          call' = [call EXCEPT ![t] = [op |-> "waittime", write |-> write,
                                       size |-> 0, lagtime |-> 0,
                                       inLag |-> FALSE]]
    /\ pc' = [pc EXCEPT ![t] = EnterGetDelay]
    /\ UNCHANGED << registry, throttle, owner, thisdelay, wakeAt, started, lastRet >>
    /\ calls < MaxCalls
    /\ calls' = calls + 1
    /\ UNCHANGED others

\* Mutant: an exception leaves the with blocks without releasing the locks.
ReleasedNone(t) == owner

\* The locks a call gives back when an exception leaves its with blocks.
Released(t) ==
    [l \in LockNames |-> IF owner[l] = t THEN NoThread ELSE owner[l]]

\* Mutant: checktime is set before the registry is read.
CheckMultiplicityStampFirst(t, canRd, canWr) ==
    /\ pc[t] = "refresh"
    /\ CanAcquire("lock", t)
    /\ LET cm == checkMultiplicity(ctrlfile, canRd, canWr, pid, MySite, now)
       IN  IF cm.raised
           THEN /\ pc' = [pc EXCEPT ![t] = "raised"]
                /\ owner' = Released(t)
                /\ checktime' = now
                /\ UNCHANGED << pid, ctrlfile, process_multiplicity >>
           ELSE /\ pc' = [pc EXCEPT ![t] = "delay"]
                /\ pid' = cm.pid
                /\ ctrlfile' = cm.file
                /\ checktime' = cm.checktime
                /\ process_multiplicity' = cm.count
                /\ UNCHANGED owner
    /\ UNCHANGED << now, mindelay, maxdelay, writedelay,
                    delay, last_read, last_write, next_multiplicity, retry_after,
                    multiplydelay, call, thisdelay, wakeAt, started, lastRet >>
    /\ UNCHANGED calls
    /\ UNCHANGED others

\* checkMultiplicity called by getDelay, with the outcome of the two opens.
CheckMultiplicityIO(t, canRd, canWr) ==
    /\ pc[t] = "refresh"
    /\ CanAcquire("lock", t)
    /\ LET cm == checkMultiplicity(ctrlfile, canRd, canWr, pid, MySite, now)
       IN  IF cm.raised
           THEN /\ pc' = [pc EXCEPT ![t] = "raised"]
                /\ owner' = Released(t)
                /\ UNCHANGED << pid, ctrlfile, checktime, process_multiplicity >>
           ELSE /\ pc' = [pc EXCEPT ![t] = "delay"]
                /\ pid' = cm.pid
                /\ ctrlfile' = cm.file
                /\ checktime' = cm.checktime
                /\ process_multiplicity' = cm.count
                /\ UNCHANGED owner
    /\ UNCHANGED << now, mindelay, maxdelay, writedelay,
                    delay, last_read, last_write, next_multiplicity, retry_after,
                    multiplydelay, call, thisdelay, wakeAt, started, lastRet >>
    /\ UNCHANGED calls
    /\ UNCHANGED others

CheckMultiplicity(t) ==
    \E canRd \in BOOLEAN, canWr \in BOOLEAN : CheckMultiplicityIO(t, canRd, canWr)

\* Mutant: the timestamp of the other kind.
LastAccessOther(write) == IF write THEN last_read ELSE last_write

\* The timestamp waittime reads for an access kind.
LastAccess(write) == IF write THEN last_write ELSE last_read

\* Mutant: next_multiplicity is set from the size of the request before the
\* delay is computed.
WaitTimeThisSize(t) ==
    /\ pc[t] = "delay"
    /\ LET nm == IF call[t].op = "waittime" THEN next_multiplicity
                 ELSE Log2(1 + call[t].size)
           d == getDelay(call[t].write, delay, writedelay, mindelay, maxdelay,
                         multiplydelay, nm, process_multiplicity)
           wait == waittime(d, now, LastAccess(call[t].write))
       IN  IF call[t].op = "waittime"
           THEN /\ pc' = [pc EXCEPT ![t] = "idle"]
                /\ call' = [call EXCEPT ![t] = NoCall]
                /\ UNCHANGED << next_multiplicity, thisdelay, wakeAt >>
           ELSE /\ pc' = [pc EXCEPT ![t] = "sleep"]
                /\ next_multiplicity' = Log2(1 + call[t].size)
                /\ thisdelay' = [thisdelay EXCEPT ![t] = d]
                /\ wakeAt' = [wakeAt EXCEPT ![t] = now + wait]
                /\ UNCHANGED call
    /\ UNCHANGED << registry, mindelay, maxdelay, writedelay, delay,
                    last_read, last_write, retry_after, checktime, multiplydelay,
                    process_multiplicity, owner, started, lastRet >>
    /\ UNCHANGED calls
    /\ UNCHANGED others

\* Mutant: only the size of a write sets next_multiplicity.
WaitTimeWritesOnly(t) ==
    /\ pc[t] = "delay"
    /\ LET d == getDelay(call[t].write, delay, writedelay, mindelay, maxdelay,
                         multiplydelay, next_multiplicity, process_multiplicity)
           wait == waittime(d, now, LastAccess(call[t].write))
       IN  IF call[t].op = "waittime"
           THEN /\ pc' = [pc EXCEPT ![t] = "idle"]
                /\ call' = [call EXCEPT ![t] = NoCall]
                /\ UNCHANGED << next_multiplicity, thisdelay, wakeAt >>
           ELSE /\ pc' = [pc EXCEPT ![t] = "sleep"]
                /\ next_multiplicity' = IF call[t].write
                                        THEN Log2(1 + call[t].size)
                                        ELSE next_multiplicity
                /\ thisdelay' = [thisdelay EXCEPT ![t] = d]
                /\ wakeAt' = [wakeAt EXCEPT ![t] = now + wait]
                /\ UNCHANGED call
    /\ UNCHANGED << registry, mindelay, maxdelay, writedelay, delay,
                    last_read, last_write, retry_after, checktime, multiplydelay,
                    process_multiplicity, owner, started, lastRet >>
    /\ UNCHANGED calls
    /\ UNCHANGED others

WaitTime(t) ==
    /\ pc[t] = "delay"
    /\ LET d == getDelay(call[t].write, delay, writedelay, mindelay, maxdelay,
                         multiplydelay, next_multiplicity, process_multiplicity)
           wait == waittime(d, now, LastAccess(call[t].write))
       IN  IF call[t].op = "waittime"
           THEN /\ pc' = [pc EXCEPT ![t] = "idle"]
                /\ call' = [call EXCEPT ![t] = NoCall]
                /\ UNCHANGED << next_multiplicity, thisdelay, wakeAt >>
           ELSE /\ pc' = [pc EXCEPT ![t] = "sleep"]
                /\ next_multiplicity' = Log2(1 + call[t].size)
                /\ thisdelay' = [thisdelay EXCEPT ![t] = d]
                /\ wakeAt' = [wakeAt EXCEPT ![t] = now + wait]
                /\ UNCHANGED call
    /\ UNCHANGED << registry, mindelay, maxdelay, writedelay, delay,
                    last_read, last_write, retry_after, checktime, multiplydelay,
                    process_multiplicity, owner, started, lastRet >>
    /\ UNCHANGED calls
    /\ UNCHANGED others

AcquireDone(t) ==
    /\ pc[t] = "sleep"
    /\ now >= wakeAt[t]
    /\ IF call[t].write
       THEN last_write' = now /\ UNCHANGED last_read
       ELSE last_read' = now /\ UNCHANGED last_write
    /\ owner' = [owner EXCEPT ![ThisLock(call[t].write)] = NoThread]
    /\ lastRet' = [lastRet EXCEPT ![Kind(call[t].write)] = now]
    /\ pc' = [pc EXCEPT ![t] = "idle"]
    /\ call' = [call EXCEPT ![t] = NoCall]
    /\ thisdelay' = [thisdelay EXCEPT ![t] = 0]
    /\ wakeAt' = [wakeAt EXCEPT ![t] = 0]
    /\ UNCHANGED << registry, mindelay, maxdelay, writedelay, delay,
                    next_multiplicity, retry_after, checktime, multiplydelay,
                    process_multiplicity, started >>
    /\ UNCHANGED calls
    /\ UNCHANGED others

(***************************************************************************)
(* Throttle.lag.                                                           *)
(*   lag      : started is taken, waiting for the lock                     *)
(*   lagsleep : in wait(), holding the lock                                *)
(***************************************************************************)
LagTimes == {0, 5 * Quantum}

CallLag(t) ==
    /\ Idle(t)
    /\ \E lagtime \in LagTimes :
          call' = [call EXCEPT ![t] = [op |-> "lag", write |-> FALSE,
                                       size |-> 0, lagtime |-> lagtime,
                                       inLag |-> FALSE]]
    /\ started' = [started EXCEPT ![t] = now]
    /\ pc' = [pc EXCEPT ![t] = "lag"]
    /\ UNCHANGED << registry, throttle, owner, thisdelay, wakeAt, lastRet >>
    /\ calls < MaxCalls
    /\ calls' = calls + 1
    /\ UNCHANGED others

\* Mutant: the time spent waiting for the lock is not subtracted.
LagEnterFullSleep(t) ==
    /\ pc[t] = "lag"
    /\ CanAcquire(LagLock, t)
    /\ owner' = [owner EXCEPT ![LagLock] = t]
    /\ wakeAt' = [wakeAt EXCEPT
                     ![t] = now + LagDelay(retry_after, call[t].lagtime)]
    /\ pc' = [pc EXCEPT ![t] = "lagsleep"]
    /\ UNCHANGED << registry, throttle, call, thisdelay, started, lastRet >>
    /\ UNCHANGED calls
    /\ UNCHANGED others

LagEnter(t) ==
    /\ pc[t] = "lag"
    /\ CanAcquire(LagLock, t)
    /\ owner' = [owner EXCEPT ![LagLock] = t]
    /\ LET wait == LagDelay(retry_after, call[t].lagtime) - (now - started[t])
       IN  wakeAt' = [wakeAt EXCEPT ![t] = now + Max(wait, 0)]
    /\ pc' = [pc EXCEPT ![t] = "lagsleep"]
    /\ UNCHANGED << registry, throttle, call, thisdelay, started, lastRet >>
    /\ UNCHANGED calls
    /\ UNCHANGED others

LagDone(t) ==
    /\ pc[t] = "lagsleep"
    /\ now >= wakeAt[t]
    /\ owner' = [owner EXCEPT ![LagLock] = NoThread]
    /\ pc' = [pc EXCEPT ![t] = "idle"]
    /\ call' = [call EXCEPT ![t] = NoCall]
    /\ wakeAt' = [wakeAt EXCEPT ![t] = 0]
    /\ started' = [started EXCEPT ![t] = 0]
    /\ UNCHANGED << registry, throttle, thisdelay, lastRet >>
    /\ UNCHANGED calls
    /\ UNCHANGED others

(***************************************************************************)
(* Spec: the threads of one process calling the throttle concurrently.     *)
(***************************************************************************)
Next ==
    \/ Tick
    \/ PeerRefresh
    \/ \E t \in Threads : CallAcquire(t)
    \/ \E t \in Threads : AcquireLock(t)
    \/ \E t \in Threads : CallWaitTime(t)
    \/ \E t \in Threads : CheckMultiplicity(t)
    \/ \E t \in Threads : WaitTime(t)
    \/ \E t \in Threads : AcquireDone(t)
    \/ \E t \in Threads : CallLag(t)
    \/ \E t \in Threads : LagEnter(t)
    \/ \E t \in Threads : LagDone(t)

Spec == Init /\ [][Next]_vars

(***************************************************************************)
(* SpecSeq: one thread making every call of the interface in sequence,     *)
(* with the delays and the Retry-After value changing between the calls.   *)
(***************************************************************************)
NextSeq ==
    \/ Tick
    \/ TickHalf
    \/ PeerRefresh
    \/ SetRetryAfter
    \/ SetDelays(1)
    \/ Drop(1)
    \/ CallAcquire(1)
    \/ AcquireLock(1)
    \/ CallWaitTime(1)
    \/ CheckMultiplicity(1)
    \/ WaitTime(1)
    \/ AcquireDone(1)
    \/ CallLag(1)
    \/ LagEnter(1)
    \/ LagDone(1)

SpecSeq == Init /\ [][NextSeq]_vars


(***************************************************************************)
(* SpecReg: several processes, each with one Throttle per site, sharing    *)
(* the registry file.  A process runs one call at a time; between the read *)
(* of the file and its rewrite the other processes may run.                *)
(***************************************************************************)
MaxRegCalls == 4
RegMaxTicks == 3
RegStep == 3 * Quantum
RegMaxTime == RegMaxTicks * RegStep

gate == << pid, throttle, threads >>

GateAtRest ==
    /\ pid = 0
    /\ mindelay = 0 /\ maxdelay = 0 /\ writedelay = 0 /\ delay = 0
    /\ last_read = 0 /\ last_write = 0
    /\ next_multiplicity = 1
    /\ retry_after = 0
    /\ checktime = 0
    /\ multiplydelay = FALSE
    /\ process_multiplicity = 0
    /\ owner = [l \in LockNames |-> NoThread]
    /\ pc = [t \in Threads |-> "idle"]
    /\ call = [t \in Threads |-> NoCall]
    /\ thisdelay = [t \in Threads |-> 0]
    /\ wakeAt = [t \in Threads |-> 0]
    /\ started = [t \in Threads |-> 0]
    /\ lastRet = [k \in {"read", "write"} |-> -1]

RegInit ==
    /\ now = 0
    /\ ctrlfile = << >>
    /\ calls = 0
    /\ NoProcesses
    /\ NoFunction
    /\ GateAtRest

RegTick ==
    /\ now + RegStep <= RegMaxTime
    /\ now' = now + RegStep
    /\ UNCHANGED << ctrlfile, calls, procvars, pure, gate >>

\* What a _read_file call leaves to be seen of itself.
Opened(canRd, raise_exc, gpid, raised) ==
    [called |-> TRUE, opened |-> canRd, raise_exc |-> raise_exc,
     hadpid |-> gpid # 0, raised |-> raised]

\* checkMultiplicity of the Throttle of process p for site s up to the call
\* of _write_file; op tells the caller: "init" for __init__, "cm" otherwise.
RegRead(p, s, op) ==
    \E canRd \in BOOLEAN :
       LET r == CMRead(ctrlfile, canRd, pids[p], s, now)
       IN  /\ lastOpen' = [lastOpen EXCEPT
                              ![p] = Opened(canRd, TRUE, pids[p], r.raised)]
           /\ IF r.raised
              THEN UNCHANGED << pids, thr, rpc >>
              ELSE /\ pids' = [pids EXCEPT ![p] = r.pid]
                   /\ thr' = [thr EXCEPT ![p][s].checktime = r.checktime,
                                         ![p][s].multiplydelay =
                                             IF op = "init" THEN TRUE ELSE @]
                   /\ rpc' = [rpc EXCEPT ![p] = [op |-> op, site |-> s,
                                                 processes |-> r.processes,
                                                 count |-> r.count]]

\* Processes are interchangeable: they make their first Throttle in order.
Started(p) == pids[p] # 0 \/ \E s \in SiteSet : thr[p][s].built

\* Throttle(site, multiplydelay=multiply)
RegConstruct(p, s) ==
    /\ calls < MaxRegCalls
    /\ calls' = calls + 1
    /\ rpc[p].op = "none"
    /\ ~thr[p][s].built
    /\ \A q \in Procs : q < p => Started(q)
    /\ \E multiply \in BOOLEAN :
          IF multiply
          THEN RegRead(p, s, "init")
          ELSE /\ thr' = [thr EXCEPT ![p][s].built = TRUE]
               /\ UNCHANGED << pids, rpc, lastOpen >>
    /\ UNCHANGED << now, ctrlfile, pure, gate >>

\* checkMultiplicity() called on a Throttle.
RegCheckMultiplicity(p, s) ==
    /\ calls < MaxRegCalls
    /\ calls' = calls + 1
    /\ rpc[p].op = "none"
    /\ thr[p][s].built
    /\ RegRead(p, s, "cm")
    /\ UNCHANGED << now, ctrlfile, pure, gate >>

\* getDelay, called by waittime or __call__, finding the refresh due.
RegGetDelay(p, s) ==
    /\ calls < MaxRegCalls
    /\ calls' = calls + 1
    /\ rpc[p].op = "none"
    /\ thr[p][s].built
    /\ RefreshDue(thr[p][s].multiplydelay, now, thr[p][s].checktime)
    /\ RegRead(p, s, "cm")
    /\ UNCHANGED << now, ctrlfile, pure, gate >>

\* drop() up to the call of _write_file.
RegDrop(p, s) ==
    /\ calls < MaxRegCalls
    /\ calls' = calls + 1
    /\ rpc[p].op = "none"
    /\ thr[p][s].built
    /\ thr' = [thr EXCEPT ![p][s].checktime = 0]
    /\ \E canRd \in BOOLEAN :
          LET rd == _read_file(ctrlfile, canRd, FALSE, pids[p])
          IN  /\ lastOpen' = [lastOpen EXCEPT
                                 ![p] = Opened(canRd, FALSE, pids[p], rd.raised)]
              /\ rpc' = [rpc EXCEPT ![p] =
                            [op |-> "drop", site |-> s,
                             processes |-> DropKeep(rd.entries, now, pids[p]),
                             count |-> 0]]
    /\ UNCHANGED << now, ctrlfile, pids, pure, gate >>

\* _write_file and what follows it in the call that was running.
RegWrite(p) ==
    /\ rpc[p].op # "none"
    /\ \E canWr \in BOOLEAN :
          ctrlfile' = _write_file(ctrlfile, canWr, rpc[p].processes)
    /\ thr' = IF rpc[p].op = "drop" THEN thr
              ELSE [thr EXCEPT ![p][rpc[p].site].process_multiplicity = rpc[p].count,
                               ![p][rpc[p].site].built = TRUE]
    /\ rpc' = [rpc EXCEPT ![p] = NoRewrite]
    /\ UNCHANGED << now, calls, pids, lastOpen, pure, gate >>

\* What getDelay(write=False) of the Throttle of process p for site s
\* returns when called now on a registry that can be opened: it refreshes
\* the multiplicity first when the refresh is due.  The delays are those
\* __init__ sets and next_multiplicity is 1.
RegNextDelay(p, s) ==
    LET t == thr[p][s]
        cm == checkMultiplicity(ctrlfile, TRUE, TRUE, pids[p], s, now)
        procm == IF RefreshDue(t.multiplydelay, now, t.checktime)
                 THEN cm.count ELSE t.process_multiplicity
        sd == setDelays(0, 0, FALSE, minthrottle, maxthrottle, 0)
    IN  getDelay(FALSE, sd.delay, sd.writedelay, sd.mindelay, sd.maxdelay,
                 t.multiplydelay, 1, procm)

RegNext ==
    \/ RegTick
    \/ \E p \in Procs, s \in SiteSet : RegConstruct(p, s)
    \/ \E p \in Procs, s \in SiteSet : RegCheckMultiplicity(p, s)
    \/ \E p \in Procs, s \in SiteSet : RegGetDelay(p, s)
    \/ \E p \in Procs, s \in SiteSet : RegDrop(p, s)
    \/ \E p \in Procs : RegWrite(p)

SpecReg == RegInit /\ [][RegNext]_vars

(***************************************************************************)
(* SpecLag: the delay lag() chooses, applied to arguments taken alone.     *)
(***************************************************************************)
LagRetryAfters == {0, 5, 10, 20, 150, 500}
LagHints == {0, 5, 10, 50, 100, 200, 500, 1000, 2500}

LagInit ==
    /\ input \in [retry_after : LagRetryAfters, lagtime : LagHints]
    /\ output = << >>
    /\ now = 0
    /\ ctrlfile = << >>
    /\ calls = 0
    /\ NoProcesses
    /\ GateAtRest

LagApply ==
    /\ output = << >>
    /\ output' = << LagDelay(input.retry_after, input.lagtime) >>
    /\ UNCHANGED << input, now, ctrlfile, calls, procvars, gate >>

SpecLag == LagInit /\ [][LagApply]_vars

(***************************************************************************)
(* SpecCM: the registry operations of one Throttle of one process, applied *)
(* to registry contents of every shape: entries of this process and of a   *)
(* peer, for this site and another, of three ages, and malformed lines.    *)
(* The process may already hold a pid (from a Throttle of another site).   *)
(* No other process runs between the read and the rewrite of a call.  A    *)
(* write that fails leaves the file as it was or cut short.                *)
(***************************************************************************)
MaxLines == 3
MaxCMCalls == 2
CMNow == 3 * RegStep
CMPids == {0, 1}
CMEntryPids == {1, 2}
CMTimes == {0, RegStep, 2 * RegStep}

\* Lines the try block of _read_file rejects: two fields, a pid that is no
\* int, a time that is no number.
CMMalformed ==
    { << IntField(1), IntField(2 * RegStep) >>,
      << StrField("x"), IntField(2 * RegStep), StrField(MySite) >>,
      << IntField(2), StrField("x"), StrField(MySite) >> }

CMLines ==
    { FORMAT_LINE(ProcEntry(p, t, t = 2 * RegStep, s)) :
          p \in CMEntryPids, t \in CMTimes, s \in SiteSet }
    \cup CMMalformed

CMFiles == UNION { [1 .. n -> CMLines] : n \in 0 .. MaxLines }

\* What a call leaves to be seen: its arguments and the registry it found ...
CMInput(op, canRd, canWr) ==
    << [op |-> op, file |-> ctrlfile, canRd |-> canRd, canWr |-> canWr,
        gpid |-> pid] >>

\* ... and the entries it read and the list it gave to _write_file.
CMOutput(raised, entries, processes) ==
    << [raised |-> raised, entries |-> entries, processes |-> processes] >>

CMInit ==
    /\ now = CMNow
    /\ ctrlfile \in CMFiles
    /\ pid \in CMPids
    /\ calls = 0
    /\ mindelay = 0 /\ maxdelay = 0 /\ writedelay = 0 /\ delay = 0
    /\ last_read = 0 /\ last_write = 0
    /\ next_multiplicity = 1
    /\ retry_after = 0
    /\ checktime = 0
    /\ multiplydelay = FALSE
    /\ process_multiplicity = 0
    /\ owner = [l \in LockNames |-> NoThread]
    /\ pc = [t \in Threads |-> "idle"]
    /\ call = [t \in Threads |-> NoCall]
    /\ thisdelay = [t \in Threads |-> 0]
    /\ wakeAt = [t \in Threads |-> 0]
    /\ started = [t \in Threads |-> 0]
    /\ lastRet = [k \in {"read", "write"} |-> -1]
    /\ NoProcesses
    /\ NoFunction

\* checkMultiplicity on the registry as it is, with the outcome of the opens.
CMCheck(op, canRd, canWr) ==
    LET rd == _read_file(ctrlfile, canRd, TRUE, pid)
        r == CMRead(ctrlfile, canRd, pid, MySite, now)
        cm == checkMultiplicity(ctrlfile, canRd, canWr, pid, MySite, now)
    IN  /\ input' = CMInput(op, canRd, canWr)
        /\ output' = CMOutput(cm.raised, rd.entries, r.processes)
        /\ IF cm.raised
           THEN UNCHANGED << ctrlfile, pid, checktime, process_multiplicity >>
           ELSE /\ ctrlfile' \in WriteOutcomes(ctrlfile, canWr,
                                               _write_file(ctrlfile, TRUE,
                                                           r.processes))
                /\ pid' = cm.pid
                /\ checktime' = cm.checktime
                /\ process_multiplicity' = cm.count

\* Throttle(site): __init__ up to setDelays.  When checkMultiplicity raises
\* there is no Throttle.
CMConstruct ==
    /\ calls = 0
    /\ calls' = calls + 1
    /\ ~multiplydelay
    /\ \E canRd \in BOOLEAN, canWr \in BOOLEAN :
          /\ CMCheck("init", canRd, canWr)
          /\ multiplydelay' = ~output'[1].raised
    /\ UNCHANGED << now, mindelay, maxdelay, writedelay, delay, last_read,
                    last_write, next_multiplicity, retry_after, threads,
                    procvars >>

\* checkMultiplicity() on the Throttle, called directly or by getDelay.
CMRefresh ==
    /\ calls < MaxCMCalls
    /\ calls' = calls + 1
    /\ multiplydelay
    /\ \E canRd \in BOOLEAN, canWr \in BOOLEAN : CMCheck("cm", canRd, canWr)
    /\ UNCHANGED << now, mindelay, maxdelay, writedelay, delay, last_read,
                    last_write, next_multiplicity, retry_after, multiplydelay,
                    threads, procvars >>

\* drop() on the Throttle.
CMDrop ==
    /\ calls < MaxCMCalls
    /\ calls' = calls + 1
    /\ multiplydelay
    /\ checktime' = 0
    /\ \E canRd \in BOOLEAN, canWr \in BOOLEAN :
          LET rd == _read_file(ctrlfile, canRd, FALSE, pid)
          IN  /\ input' = CMInput("drop", canRd, canWr)
              /\ output' = CMOutput(rd.raised, rd.entries,
                                    DropKeep(rd.entries, now, pid))
              /\ ctrlfile' \in WriteOutcomes(ctrlfile, canWr,
                                             drop(ctrlfile, canRd, TRUE, pid,
                                                  now))
    /\ UNCHANGED << now, pid, mindelay, maxdelay, writedelay, delay, last_read,
                    last_write, next_multiplicity, retry_after, multiplydelay,
                    process_multiplicity, threads, procvars >>

CMNext ==
    \/ CMConstruct
    \/ CMRefresh
    \/ CMDrop

SpecCM == CMInit /\ [][CMNext]_vars

(***************************************************************************)
(* SpecDelay: getDelay applied to the fields of a Throttle taken alone.    *)
(* mindelay and maxdelay are the arguments of __init__; delay and          *)
(* writedelay are what setDelays made of its arguments; next_multiplicity  *)
(* is what the last __call__ left; process_multiplicity what the last      *)
(* checkMultiplicity counted.                                              *)
(***************************************************************************)
DelayMins == {0, 1, 3}
DelayMaxs == {2, 4}
DelayBases == {0, 1, 5, 9}
DelayWrites == {0, 2, 7}
DelaySizes == {1, 3, 7}
DelayCounts == {1, 2, 3}

DelayFields(mind, maxd, dArg, wArg, absolute, size, procm, write, multiply) ==
    LET sd == setDelays(dArg, wArg, absolute, mind, maxd, 0)
    IN  [ write |-> write, multiplydelay |-> multiply,
          mindelay |-> sd.mindelay, maxdelay |-> sd.maxdelay,
          delay |-> sd.delay, writedelay |-> sd.writedelay,
          size |-> size, next_multiplicity |-> Log2(1 + size),
          process_multiplicity |-> procm ]

DelayInit ==
    /\ \E mind \in DelayMins, maxd \in DelayMaxs, dArg \in DelayBases,
          wArg \in DelayWrites, absolute \in BOOLEAN, size \in DelaySizes,
          procm \in DelayCounts, write \in BOOLEAN, multiply \in BOOLEAN :
          input = << DelayFields(mind, maxd, dArg, wArg, absolute, size,
                                 procm, write, multiply) >>
    /\ output = << >>
    /\ now = 0
    /\ ctrlfile = << >>
    /\ calls = 0
    /\ NoProcesses
    /\ GateAtRest

\* getDelay(write); clamped is the value before line 188 multiplies it.
DelayApply ==
    /\ output = << >>
    /\ LET f == input[1]
       IN  output' =
             << [ delay |-> getDelay(f.write, f.delay, f.writedelay,
                                     f.mindelay, f.maxdelay, f.multiplydelay,
                                     f.next_multiplicity,
                                     f.process_multiplicity),
                  clamped |-> getDelay(f.write, f.delay, f.writedelay,
                                       f.mindelay, f.maxdelay,
                                       f.multiplydelay,
                                       f.next_multiplicity, 1) ] >>
    /\ UNCHANGED << input, now, ctrlfile, calls, procvars, gate >>

SpecDelay == DelayInit /\ [][DelayApply]_vars

(***************************************************************************)
(* SpecSize: the next_multiplicity that __call__ computes from the request *)
(* size, for two request sizes of the form 2^k - 1.                        *)
(***************************************************************************)
MaxLog2 == 29

RECURSIVE Pow2(_)
Pow2(k) == IF k = 0 THEN 1 ELSE 2 * Pow2(k - 1)

SizeInit ==
    /\ input \in [size : {Pow2(k) - 1 : k \in 1 .. MaxLog2},
                  other : {Pow2(k) - 1 : k \in 1 .. MaxLog2}]
    /\ output = << >>
    /\ now = 0
    /\ ctrlfile = << >>
    /\ calls = 0
    /\ NoProcesses
    /\ GateAtRest

\* self.next_multiplicity = math.log(1 + requestsize) / math.log(2.0)
SizeApply ==
    /\ output = << >>
    /\ output' = << [size |-> NextMultiplicity(input.size),
                     other |-> NextMultiplicity(input.other)] >>
    /\ UNCHANGED << input, now, ctrlfile, calls, procvars, gate >>

SpecSize == SizeInit /\ [][SizeApply]_vars

(***************************************************************************)
(* SpecSet: setDelays applied to its arguments and to the mindelay and     *)
(* maxdelay of a Throttle taken alone; 0 stands for an argument left out.  *)
(***************************************************************************)
SetInit ==
    /\ input \in [mindelay : DelayMins, maxdelay : DelayMaxs,
                  delay : DelayBases, writedelay : DelayWrites,
                  absolute : BOOLEAN]
    /\ output = << >>
    /\ now = 0
    /\ ctrlfile = << >>
    /\ calls = 0
    /\ NoProcesses
    /\ GateAtRest

\* setDelays(delay, writedelay, absolute)
SetApply ==
    /\ output = << >>
    /\ output' = << setDelays(input.delay, input.writedelay, input.absolute,
                              input.mindelay, input.maxdelay, now) >>
    /\ UNCHANGED << input, now, ctrlfile, calls, procvars, gate >>

SpecSet == SetInit /\ [][SetApply]_vars

(***************************************************************************)
(* SpecLive: the threads of one process running every call that takes a    *)
(* lock (acquire of either kind, lag, setDelays) and waittime, under fair   *)
(* scheduling: a thread that can take its next step takes it, a lock that   *)
(* is free is given to a thread waiting for it, and the clock advances.     *)
(* The Throttle has multiplicity handling on, so that a delay computation   *)
(* can find a refresh due and take self.lock.                               *)
(*   setdelays : in setDelays, waiting for self.lock                        *)
(***************************************************************************)
\* The state after Throttle(site) has written its entry to an empty registry.
LiveInit ==
    /\ Init
    /\ multiplydelay
    /\ process_multiplicity = 1
    /\ Len(ctrlfile) = 1

CallSetDelays(t) ==
    /\ Idle(t)
    /\ call' = [call EXCEPT ![t] = [NoCall EXCEPT !.op = "setdelays"]]
    /\ pc' = [pc EXCEPT ![t] = "setdelays"]
    /\ UNCHANGED << registry, throttle, owner, thisdelay, wakeAt, started, lastRet >>
    /\ calls < MaxCalls
    /\ calls' = calls + 1
    /\ UNCHANGED others

\* The body of setDelays() under self.lock, called with its default
\* arguments as __init__ calls it.
SetDelaysLocked(t) ==
    /\ pc[t] = "setdelays"
    /\ CanAcquire("lock", t)
    /\    LET sd == setDelays(0, 0, FALSE, mindelay, maxdelay, now)
          IN  /\ mindelay' = sd.mindelay
              /\ maxdelay' = sd.maxdelay
              /\ delay' = sd.delay
              /\ writedelay' = sd.writedelay
              /\ last_read' = sd.last
              /\ last_write' = sd.last
    /\ pc' = [pc EXCEPT ![t] = "idle"]
    /\ call' = [call EXCEPT ![t] = NoCall]
    /\ UNCHANGED << registry, next_multiplicity, retry_after, checktime,
                    multiplydelay, process_multiplicity, owner, thisdelay,
                    wakeAt, started, lastRet >>
    /\ UNCHANGED calls
    /\ UNCHANGED others

\* The steps thread t takes inside a call it has made.
Proceed(t) ==
    \/ AcquireLock(t)
    \/ CheckMultiplicity(t)
    \/ WaitTime(t)
    \/ AcquireDone(t)
    \/ LagEnter(t)
    \/ LagDone(t)
    \/ SetDelaysLocked(t)

NextLive ==
    \/ Tick
    \/ \E t \in Threads : CallAcquire(t)
    \/ \E t \in Threads : CallWaitTime(t)
    \/ \E t \in Threads : CallLag(t)
    \/ \E t \in Threads : CallSetDelays(t)
    \/ \E t \in Threads : AcquireLock(t)
    \/ \E t \in Threads : CheckMultiplicity(t)
    \/ \E t \in Threads : WaitTime(t)
    \/ \E t \in Threads : AcquireDone(t)
    \/ \E t \in Threads : LagEnter(t)
    \/ \E t \in Threads : LagDone(t)
    \/ \E t \in Threads : SetDelaysLocked(t)

SpecLive ==
    /\ LiveInit
    /\ [][NextLive]_vars
    /\ WF_vars(Tick)
    /\ \A t \in Threads : WF_vars(Proceed(t))

(***************************************************************************)
(* Properties of the Throttle Gate, checked under Spec.                    *)
(***************************************************************************)
Acquiring(t) == call[t].op = "acquire"

\* Thread t is between taking its access-kind lock and stamping.
InCritical(t) == Acquiring(t) /\ pc[t] \in {"refresh", "delay", "sleep"}

\* Thread t takes a step of the call it is running.
Steps(t) == pc'[t] # pc[t]

C2_SameKindSerialized ==
    \A t1 \in Threads, t2 \in Threads :
        (t1 # t2 /\ InCritical(t1) /\ InCritical(t2))
            => call[t1].write # call[t2].write

\* One caller is in its wait while a second caller of the same kind is
\* queued on the lock.
C2_Witness ==
    \E t1 \in Threads, t2 \in Threads :
        /\ t1 # t2
        /\ InCritical(t1) /\ pc[t1] = "sleep" /\ wakeAt[t1] > now
        /\ Acquiring(t2) /\ pc[t2] = "acquire"
        /\ call[t1].write = call[t2].write

C4_OwnKindOnly ==
    [][\A t \in Threads :
          (Acquiring(t) /\ Steps(t)) =>
              /\ call[t].write => last_read' = last_read
              /\ ~call[t].write => last_write' = last_write
              /\ (pc[t] = "delay" /\ call[t].write) =>
                    wakeAt'[t] - now = Max(0, thisdelay'[t] - (now - last_write))
              /\ (pc[t] = "delay" /\ ~call[t].write) =>
                    wakeAt'[t] - now = Max(0, thisdelay'[t] - (now - last_read))
              /\ (pc[t] = "sleep" /\ call[t].write) => last_write' = now'
              /\ (pc[t] = "sleep" /\ ~call[t].write) => last_read' = now'
      ]_vars

\* A caller is in its wait at a time when the two timestamps differ.
C4_Witness ==
    \E t \in Threads :
        /\ Acquiring(t) /\ pc[t] = "sleep" /\ wakeAt[t] > now
        /\ last_read # last_write
        /\ lastRet["read"] >= 0 \/ lastRet["write"] >= 0

\* C5: while a thread sleeps inside lag(), no thread is inside the critical
\* section of acquire(write=true).
C5_LagExcludesWriter ==
    \A l \in Threads, w \in Threads :
        ~ ( /\ l # w
            /\ pc[l] = "lagsleep"
            /\ InCritical(w) /\ call[w].write )

\* C7: every step of wait_time leaves the throttle state, the process id
\* and the registry file unchanged, and wait_time never sleeps.
C7_PureQuery ==
    [][\A t \in Threads :
          (call[t].op = "waittime" /\ Steps(t)) =>
              /\ UNCHANGED << throttle, pid, ctrlfile >>
              /\ pc'[t] # "sleep"
      ]_vars

\* C7 as amended: wait_time never sleeps and leaves the delays, both
\* timestamps, next_multiplicity, retry_after and the process id unchanged;
\* it runs check_multiplicity only when multiplicity handling is on and
\* now > checktime + checkdelay, and only that refresh changes checktime,
\* the multiplicity and the registry file.
C7_QueryRefreshesOnly ==
    [][\A t \in Threads :
          /\ (call'[t].op = "waittime" /\ pc[t] = "idle" /\ pc'[t] = "refresh")
                => (multiplydelay /\ now > checktime + checkdelay)
          /\ (call[t].op = "waittime" /\ Steps(t)) =>
                /\ UNCHANGED << mindelay, maxdelay, writedelay, delay, last_read,
                                last_write, next_multiplicity, retry_after,
                                multiplydelay, pid >>
                /\ pc'[t] # "sleep"
                /\ pc[t] # "refresh" =>
                      UNCHANGED << checktime, process_multiplicity, ctrlfile >>
      ]_vars

\* A wait_time call has refreshed the registry: it is past checkMultiplicity
\* at a time when the refresh was due, and checktime is the current time.
C7_Witness ==
    \E t \in Threads :
        /\ call[t].op = "waittime" /\ pc[t] = "delay"
        /\ multiplydelay /\ checktime = now /\ now > checkdelay

FailedOpen(p) == lastOpen[p].called /\ ~lastOpen[p].opened

C10_PidStable ==
    [][\A p \in Procs :
          /\ pids[p] # 0 => pids'[p] = pids[p]
          /\ rpc'[p].op \in {"init", "cm"} =>
                /\ pids'[p] # 0
                /\ rpc'[p].processes[Len(rpc'[p].processes)].pid = pids'[p]
      ]_vars

\* A process has a Throttle for each of two sites, and the registry holds
\* an entry for each under the one id of the process.
C10_Witness ==
    \E p \in Procs :
        /\ pids[p] # 0
        /\ \A s \in SiteSet :
              /\ thr[p][s].built /\ thr[p][s].multiplydelay
              /\ \E i \in 1 .. Len(ctrlfile) :
                    /\ WellFormed(ctrlfile[i])
                    /\ ParseLine(ctrlfile[i]).pid = pids[p]
                    /\ ParseLine(ctrlfile[i]).site = s

\* Process p starts a checkMultiplicity for site s whose read succeeds.
ReadsRegistry(p, s) ==
    /\ rpc[p].op = "none"
    /\ rpc'[p].op \in {"init", "cm"}
    /\ rpc'[p].site = s
    /\ lastOpen'[p].opened

\* The lines of the registry that are fresh entries for site s of a pid
\* other than q.
FreshPeers(q, s) ==
    {i \in 1 .. Len(ctrlfile) : /\ WellFormed(ctrlfile[i])
                                /\ ctrlfile[i][3] = StrField(s)
                                /\ ctrlfile[i][1].n # q
                                /\ now - ctrlfile[i][2].n <= dropdelay}

\* Process 1 (A) holds pid 1 and has counted itself alone for the site;
\* process 2 (B) checked after it, holds pid 2 and has counted two; no call
\* is under way.
ScenarioAB ==
    /\ pids[1] = 1 /\ pids[2] = 2
    /\ \A p \in {1, 2} : /\ thr[p][MySite].built
                         /\ thr[p][MySite].multiplydelay
                         /\ rpc[p].op = "none"
    /\ thr[1][MySite].process_multiplicity = 1
    /\ thr[2][MySite].process_multiplicity = 2
    /\ thr[1][MySite].checktime <= thr[2][MySite].checktime

\* C19: once A has pid 1 and multiplicity 1 and B, checking after it, has
\* pid 2 and multiplicity 2, A's next delay computation gives mindelay * 2.
C19_NextDelayDoubled ==
    ScenarioAB => RegNextDelay(1, MySite) = minthrottle * 2

\* C19 as amended: a process checking an empty registry gets pid 1 and
\* multiplicity 1; a process checking a registry that holds only the entry
\* of pid 1 for the site, at most dropdelay old, gets pid 2 and multiplicity
\* 2; and A's next delay computation gives mindelay * 2 only if it comes
\* more than checkdelay after A's last check, so that it refreshes, and B's
\* entry is then the one entry of a peer in the registry that is at most
\* dropdelay old; without a refresh it gives mindelay * 1, and with one
\* mindelay * (1 + the number of such entries).
C19_DoubledAtNextRefresh ==
    /\ [](ScenarioAB =>
            RegNextDelay(1, MySite) =
               minthrottle *
                 (IF now > thr[1][MySite].checktime + checkdelay
                  THEN 1 + Cardinality(FreshPeers(1, MySite))
                  ELSE 1))
    /\ [][\A p \in Procs :
             (ReadsRegistry(p, MySite) /\ pids[p] = 0) =>
                /\ ctrlfile = << >> =>
                      (pids'[p] = 1 /\ rpc'[p].count = 1)
                /\ ( /\ Len(ctrlfile) = 1
                     /\ FreshPeers(0, MySite) = {1}
                     /\ ctrlfile[1][1].n = 1 ) =>
                      (pids'[p] = 2 /\ rpc'[p].count = 2)
       ]_vars

\* A and B have checked in turn, and A, refreshing more than checkdelay
\* later, has counted two.
C19_Witness ==
    /\ pids[1] = 1 /\ pids[2] = 2
    /\ \A p \in {1, 2} : /\ thr[p][MySite].built
                         /\ rpc[p].op = "none"
                         /\ thr[p][MySite].process_multiplicity = 2
    /\ thr[2][MySite].checktime = 0
    /\ thr[1][MySite].checktime > checkdelay
    /\ Cardinality(FreshPeers(1, MySite)) = 1
    /\ RegNextDelay(1, MySite) = minthrottle * 2

(***************************************************************************)
(* Properties of the registry operations, checked under SpecCM.            *)
(***************************************************************************)
\* The last call was a checkMultiplicity that did not raise.
Refreshed ==
    /\ output # << >>
    /\ input[1].op \in {"init", "cm"}
    /\ ~output[1].raised

\* The lines of the registry the call found that it could read as entries.
LinesRead ==
    IF input[1].canRd
    THEN {i \in 1 .. Len(input[1].file) : WellFormed(input[1].file[i])}
    ELSE {}

LineAge(i) == now - input[1].file[i][2].n

\* The lines that count as peers of this Throttle: same site, another pid,
\* at most dropdelay old.
PeerLines ==
    {i \in LinesRead : /\ input[1].file[i][3] = StrField(MySite)
                       /\ input[1].file[i][1].n # pid
                       /\ LineAge(i) <= dropdelay}

\* C11: after check_multiplicity the multiplicity is 1 plus the number of
\* entries read for this site, with another pid than this process's, at most
\* dropdelay old; no other entry contributes.
C11_CountsFreshPeers ==
    Refreshed => process_multiplicity = 1 + Cardinality(PeerLines)

\* The refresh read a fresh peer of this site, which it counted, and an
\* entry of each kind that contributes nothing: another site, this
\* process's own pid, older than dropdelay.
C11_Witness ==
    /\ Refreshed
    /\ process_multiplicity = 2
    /\ Cardinality(PeerLines) = 1
    /\ \E i \in LinesRead \ PeerLines :
          \/ input[1].file[i][3] # StrField(MySite)
          \/ input[1].file[i][1].n = input[1].gpid
    /\ \E i \in LinesRead \ PeerLines :
          /\ input[1].file[i][3] = StrField(MySite)
          /\ input[1].file[i][1].n # pid
          /\ LineAge(i) > dropdelay

\* C12: after check_multiplicity has rewritten the registry, the file holds
\* no entry that was older than releasepid when read, and the multiplicity
\* counts only entries that were not.
C12_ExpiredDropped ==
    Refreshed =>
        /\ input[1].canWr =>
              \A j \in 1 .. Len(ctrlfile) :
                  /\ WellFormed(ctrlfile[j])
                  /\ now - ctrlfile[j][2].n <= releasepid
        /\ process_multiplicity - 1 <=
              Cardinality({i \in LinesRead : LineAge(i) <= releasepid})

\* The refresh read an expired entry of a peer for this site and rewrote the
\* registry without it.
C12_Witness ==
    /\ Refreshed
    /\ input[1].canWr
    /\ \E i \in LinesRead :
          /\ LineAge(i) > releasepid
          /\ input[1].file[i][3] = StrField(MySite)
          /\ input[1].file[i][1].n # pid
    /\ Len(ctrlfile) >= 2

\* C13: a Throttle with multiplicity handling on has a multiplicity that is
\* a whole number >= 1, whatever the registry held and whether or not it
\* could be opened.
C13_MultiplicityAtLeastOne ==
    multiplydelay => (process_multiplicity \in Nat /\ process_multiplicity >= 1)

\* The multiplicity is 1 after a construction or refresh that found the
\* registry unopenable, or found a malformed line in it.
C13_Witness ==
    /\ multiplydelay
    /\ output # << >>
    /\ process_multiplicity = 1
    /\ \/ ~input[1].canRd /\ ~output[1].raised
       \/ \E i \in 1 .. Len(input[1].file) : ~WellFormed(input[1].file[i])

\* The last call was a drop() whose two opens succeeded.
Released1 ==
    /\ output # << >>
    /\ input[1].op = "drop"
    /\ input[1].canRd /\ input[1].canWr

\* The lines of the registry now that are entries of process q.
EntriesOf(q) ==
    {j \in 1 .. Len(ctrlfile) : WellFormed(ctrlfile[j]) /\ ctrlfile[j][1].n = q}

\* C18: after a release() whose reads and writes succeeded, the registry
\* holds no entry with this process's pid for any site; every entry of
\* another process that had not expired is still there; and the
\* check_multiplicity a peer runs next for a site counts the other fresh
\* entries of that site and not the released process.
C18_ReleaseRemovesOwnEntries ==
    Released1 =>
        /\ EntriesOf(pid) = {}
        /\ \A i \in LinesRead :
              (input[1].file[i][1].n # pid /\ LineAge(i) <= releasepid) =>
                  \E j \in 1 .. Len(ctrlfile) :
                      /\ WellFormed(ctrlfile[j])
                      /\ ctrlfile[j][1].n = input[1].file[i][1].n
                      /\ ctrlfile[j][2].n = input[1].file[i][2].n
                      /\ ctrlfile[j][3] = input[1].file[i][3]
        /\ \A q \in CMEntryPids \ {pid}, site \in SiteSet :
              checkMultiplicity(ctrlfile, TRUE, TRUE, q, site, now).count
                 = 1 + Cardinality(
                          {i \in LinesRead :
                              /\ input[1].file[i][3] = StrField(site)
                              /\ input[1].file[i][1].n \notin {q, pid}
                              /\ LineAge(i) <= dropdelay})

\* release() found entries of this process for both sites and a fresh entry
\* of a peer for this site, and left the peer's.
C18_Witness ==
    /\ Released1
    /\ \A site \in SiteSet :
          \E i \in LinesRead : /\ input[1].file[i][1].n = pid
                               /\ input[1].file[i][3] = StrField(site)
    /\ \E i \in LinesRead : /\ input[1].file[i][1].n # pid
                            /\ input[1].file[i][3] = StrField(MySite)
                            /\ LineAge(i) <= dropdelay
    /\ Len(ctrlfile) = 1

\* The (pid, site) pairs of a sequence of entries.
PairsOf(entries) ==
    {<< entries[i].pid, entries[i].site >> : i \in 1 .. Len(entries)}

\* The entries read back from the file _write_file makes of a list.
ReadBack(processes) ==
    _read_file(_write_file(<< >>, TRUE, processes), TRUE, FALSE, pid).entries

\* The list in the order a permutation of its indices gives.
Reordered(processes, f) == [i \in 1 .. Len(processes) |-> processes[f[i]]]

\* The last call wrote the registry.
Wrote == output # << >> /\ ~output[1].raised /\ input[1].canWr

\* The place among the entries read of the entry of line i.
RankOf(i) == Cardinality({j \in LinesRead : j <= i})

Baseline == IF input[1].write THEN input[1].writedelay ELSE input[1].delay

\* Clamp x into [lo, hi].
Clamp(x, lo, hi) == Min(Max(x, lo), hi)

\* C14: the nominal delay is the baseline clamped into
\* [mindelay * multiplicity, maxdelay], multiplied by the multiplicity (here
\* for a Throttle with multiplicity handling on whose bounds are in order).
C14_ClampByMultiplicity ==
    ( /\ output # << >>
      /\ input[1].multiplydelay
      /\ input[1].mindelay * input[1].process_multiplicity
             <= input[1].maxdelay ) =>
        output[1].delay =
            Clamp(Baseline,
                  input[1].mindelay * input[1].process_multiplicity,
                  input[1].maxdelay)
            * input[1].process_multiplicity

\* C14 as amended: with multiplicity handling on, the nominal delay is the
\* baseline raised to mindelay * next_multiplicity when it is below that,
\* and otherwise lowered to maxdelay when it is above that, multiplied by
\* the process multiplicity; with multiplicity handling off it is the
\* baseline as it is.
C14_ClampBySize ==
    output # << >> =>
        LET floor == input[1].mindelay * input[1].next_multiplicity
        IN  /\ (input[1].multiplydelay /\ Baseline < floor) =>
                  output[1].delay = floor * input[1].process_multiplicity
            /\ (input[1].multiplydelay /\ Baseline >= floor) =>
                  output[1].delay = Min(Baseline, input[1].maxdelay)
                                    * input[1].process_multiplicity
            /\ ~input[1].multiplydelay => output[1].delay = Baseline

\* The delay of a Throttle with two peers whose baseline lies below
\* mindelay * next_multiplicity, after a request of size 3.
C14_Witness ==
    /\ output # << >>
    /\ input[1].multiplydelay
    /\ input[1].process_multiplicity = 3
    /\ input[1].next_multiplicity = 2
    /\ input[1].mindelay = 1
    /\ Baseline = 1
    /\ output[1].delay = 6

\* The clamped delay applies with multiplicity handling on, mindelay <=
\* maxdelay and a request size >= 1.
Clamping ==
    /\ output # << >>
    /\ input[1].multiplydelay
    /\ input[1].mindelay <= input[1].maxdelay
    /\ input[1].size >= 1

DoubleLeq(a, b) ==
    \/ a.whole < b.whole
    \/ a.whole = b.whole /\ a.ulps <= b.ulps

C17_NoRegistryIO ==
    [][~multiplydelay => (ctrlfile' = ctrlfile \/ PeerRefresh)]_vars

\* C17 as amended: with multiplicity handling off, construction leaves the
\* registry as it found it and allocates no pid; acquire and wait_time never
\* enter the registry refresh, the only place where they open the file; lag
\* opens nothing; the registry changes only by release() (or by a peer).
C17_OnlyReleaseTouchesRegistry ==
    /\ ~multiplydelay => (pid = 0 /\ ctrlfile \in InitFiles)
    /\ [][~multiplydelay =>
             /\ \A t \in Threads : pc'[t] \notin {"refresh", "raised"}
             /\ pid' = 0
             /\ ctrlfile' # ctrlfile => (PeerRefresh \/ Drop(1))
       ]_vars

\* With multiplicity handling off, release() has rewritten the registry: the
\* entry a peer wrote with a float time is there with an int time.
C17_Witness ==
    /\ ~multiplydelay
    /\ pid = 0
    /\ ctrlfile = << << IntField(PeerPid), IntField(Quantum),
                        StrField(MySite) >> >>

(***************************************************************************)
(* Properties of the registry file after a call, checked under SpecCM.     *)
(***************************************************************************)
\* The lines of the registry are in ascending order of (pid, site).
FileSorted ==
    \A j \in 1 .. Len(ctrlfile) - 1 :
        \/ ctrlfile[j][1].n < ctrlfile[j + 1][1].n
        \/ /\ ctrlfile[j][1].n = ctrlfile[j + 1][1].n
           /\ SiteRank(ctrlfile[j][3].s) <= SiteRank(ctrlfile[j + 1][3].s)

\* C21: after a registry write that succeeded the file holds the lines of
\* the entries given to that write, each once and nothing else, whatever it
\* held before, in ascending order of (pid, site).
C21_WriteReplaces ==
    Wrote =>
        LET written == output[1].processes
        IN  /\ Len(ctrlfile) = Len(written)
            /\ \E f \in Permutations(1 .. Len(written)) :
                  \A i \in 1 .. Len(written) :
                      ctrlfile[i] = FORMAT_LINE(written[f[i]])
            /\ FileSorted

\* A call found three lines, one of them malformed and one expired, and
\* wrote two entries it held out of order.
C21_Witness ==
    /\ Wrote
    /\ Len(input[1].file) = 3
    /\ \E i \in 1 .. 3 : ~WellFormed(input[1].file[i])
    /\ \E i \in LinesRead : LineAge(i) > releasepid
    /\ Len(output[1].processes) = 2
    /\ ~KeyLeq(output[1].processes[1], output[1].processes[2])
    /\ Len(ctrlfile) = 2

\* The delay getDelay(write) of this Throttle returns at time t, after the
\* refresh it makes then, on a registry holding the given file; the delays
\* are those __init__ sets and next_multiplicity is 1.
DelayAfter(file, t, write) ==
    LET sd == setDelays(0, 0, FALSE, minthrottle, maxthrottle, 0)
        cm == checkMultiplicity(file, TRUE, TRUE, pid, MySite, t)
    IN  getDelay(write, sd.delay, sd.writedelay, sd.mindelay, sd.maxdelay,
                 TRUE, 1, cm.count)

\* The last call ended without an exception and its write failed.
WriteFailed == output # << >> /\ ~output[1].raised /\ ~input[1].canWr

\* The file the last call would have left had its write succeeded.
FileIfWritten == _write_file(input[1].file, TRUE, output[1].processes)

\* C22 as stated: after a check_multiplicity or release whose write failed,
\* the delay this process computes at its next refresh is never below the
\* one it would compute had the write succeeded.
C22_DelayNotBelow ==
    WriteFailed =>
        \A t \in {now, now + checkdelay + 1}, write \in BOOLEAN :
            DelayAfter(ctrlfile, t, write) >=
                DelayAfter(FileIfWritten, t, write)

\* C22, amended: a call raises only for a failed read; a check_multiplicity
\* that does not raise records the refresh time and the multiplicity whether
\* or not its write failed; after a call that read the registry and failed
\* to write it, the delay this process computes at its next refresh is
\* never above the one it would compute had the write succeeded, and equal
\* to it when the file was left untouched.
C22_WriteFailureSwallowed ==
    /\ (output # << >> /\ output[1].raised) =>
          (~input[1].canRd /\ input[1].gpid # 0)
    /\ Refreshed =>
          /\ checktime = now
          /\ process_multiplicity = 1 + Cardinality(PeerLines)
    /\ (WriteFailed /\ input[1].canRd) =>
          \A t \in {now, now + checkdelay + 1}, write \in BOOLEAN :
              /\ DelayAfter(ctrlfile, t, write) <=
                    DelayAfter(FileIfWritten, t, write)
              /\ ctrlfile = input[1].file =>
                    DelayAfter(ctrlfile, t, write) =
                        DelayAfter(FileIfWritten, t, write)

\* A check_multiplicity that counted a fresh peer failed to write after the
\* file was truncated: it recorded the time and the multiplicity 2, and a
\* refresh made now would count no peer.
C22_Witness ==
    /\ WriteFailed
    /\ input[1].canRd
    /\ Refreshed
    /\ checktime = now
    /\ process_multiplicity = 2
    /\ ctrlfile # input[1].file
    /\ DelayAfter(ctrlfile, now, FALSE) = minthrottle
    /\ DelayAfter(FileIfWritten, now, FALSE) = 2 * minthrottle

(***************************************************************************)
(* Properties of processes racing on the registry, checked under SpecReg.  *)
(***************************************************************************)
\* The registry holds an entry of process p for site s.
HasEntry(file, p, s) ==
    \E j \in 1 .. Len(file) :
        /\ WellFormed(file[j])
        /\ file[j][1].n = pids[p]
        /\ file[j][3] = StrField(s)

\* C23: whatever the other processes read and wrote in between, when the
\* rewrite of a check_multiplicity of process p succeeds, the registry
\* holds the entry of p for its site, stamped with the time of that check.
C23_EntryBackAfterRefresh ==
    [][\A p \in Procs :
          ( /\ rpc[p].op \in {"init", "cm"}
            /\ rpc'[p].op = "none"
            /\ ctrlfile' = _write_file(ctrlfile, TRUE, rpc[p].processes) )
          => /\ HasEntry(ctrlfile', p, rpc[p].site)
             /\ \E j \in 1 .. Len(ctrlfile') :
                   ctrlfile'[j] =
                      FORMAT_LINE(ProcEntry(pids[p],
                                            thr[p][rpc[p].site].checktime,
                                            TRUE, rpc[p].site))]_vars

\* Process 1 has completed a check_multiplicity for its site, the registry
\* holds the entry another process wrote and none of process 1 for that
\* site, and process 1 is in its next check_multiplicity, about to write its
\* entry again.
C23_Witness ==
    /\ thr[1][MySite].built
    /\ thr[1][MySite].multiplydelay
    /\ thr[1][MySite].process_multiplicity >= 1
    /\ rpc[1].op = "cm"
    /\ rpc[1].site = MySite
    /\ ~HasEntry(ctrlfile, 1, MySite)
    /\ ctrlfile # << >>
    /\ thr[2][Sites[2]].built
    /\ rpc[2].op = "none"
    /\ \E j \in 1 .. Len(rpc[1].processes) :
          /\ rpc[1].processes[j].pid = pids[1]
          /\ rpc[1].processes[j].site = MySite

(***************************************************************************)
(* Properties of the pid a process takes, checked under SpecCM.            *)
(***************************************************************************)
\* One more than the greatest pid on the given lines of the registry the
\* call found, or 1 if there are none.
NextPidOver(lines) ==
    LET used == {input[1].file[i][1].n : i \in lines}
    IN  IF used = {} THEN 1
        ELSE 1 + CHOOSE m \in used : \A x \in used : x <= m

\* C24 as stated: the pid allocated on first use is one more than the
\* greatest pid of all the entries in the registry, the expired ones
\* included, or 1 if there are none.
C24_PidAboveAllEntries ==
    (Refreshed /\ input[1].gpid = 0) => pid = NextPidOver(LinesRead)

\* C24, amended: the pid allocated on first use is one more than the
\* greatest pid of the entries read that are at most releasepid old, or 1
\* if there are none; a process that already has a pid keeps it.
C24_PidAboveLiveEntries ==
    Refreshed =>
        pid = IF input[1].gpid = 0
              THEN NextPidOver({i \in LinesRead : LineAge(i) <= releasepid})
              ELSE input[1].gpid

\* A first use found an entry of pid 1 that was not expired and an expired
\* entry of pid 2, and took pid 2.
C24_Witness ==
    /\ Refreshed
    /\ input[1].gpid = 0
    /\ pid = 2
    /\ \E i \in LinesRead :
          input[1].file[i][1].n = 1 /\ LineAge(i) <= releasepid
    /\ \E i \in LinesRead :
          input[1].file[i][1].n = 2 /\ LineAge(i) > releasepid

(***************************************************************************)
(* Entries retained and entries counted, checked under SpecCM.             *)
(***************************************************************************)
\* The lines read that are entries of another process and have not expired.
LivePeerLines ==
    {i \in LinesRead : /\ LineAge(i) <= releasepid
                       /\ input[1].file[i][1].n # pid}

\* C25: check_multiplicity keeps every entry of another process that has
\* not expired in the list it rewrites the file from, whatever its site and
\* whether or not it is older than dropdelay, and keeps nothing but these,
\* the unexpired entries of this process for other sites and its own new
\* entry; it counts such an entry if and only if it is for this site and at
\* most dropdelay old.
C25_RetainedAndCounted ==
    Refreshed =>
        LET written == output[1].processes
            kept == {i \in LinesRead :
                        /\ LineAge(i) <= releasepid
                        /\ \/ input[1].file[i][3] # StrField(MySite)
                           \/ input[1].file[i][1].n # input[1].gpid}
        IN  /\ LivePeerLines \subseteq kept
            /\ \A i \in kept :
                  \E j \in 1 .. Len(written) - 1 :
                      written[j] = ParseLine(input[1].file[i])
            /\ Len(written) = 1 + Cardinality(kept)
            /\ PeerLines \subseteq LivePeerLines
            /\ process_multiplicity = 1 + Cardinality(PeerLines)
            /\ \A i \in LivePeerLines :
                  i \in PeerLines <=>
                      /\ input[1].file[i][3] = StrField(MySite)
                      /\ LineAge(i) <= dropdelay

\* A refresh kept three entries of a peer: one for another site, one for
\* this site older than dropdelay, and one for this site that it counted.
C25_Witness ==
    /\ Refreshed
    /\ input[1].canWr
    /\ Cardinality(LivePeerLines) = 3
    /\ Len(ctrlfile) = 4
    /\ process_multiplicity = 2
    /\ \E i \in LivePeerLines \ PeerLines :
          input[1].file[i][3] # StrField(MySite)
    /\ \E i \in LivePeerLines \ PeerLines :
          /\ input[1].file[i][3] = StrField(MySite)
          /\ LineAge(i) > dropdelay

(***************************************************************************)
(* The own entry of a process, checked under SpecCM.                       *)
(***************************************************************************)
\* C26: after a check_multiplicity whose write succeeded the registry holds
\* one line with the pid of this process and its site, and that line is the
\* entry stamped with checktime; the entries it read for that pid and site
\* are gone.
C26_OneOwnEntry ==
    (Refreshed /\ Wrote) =>
        LET own == {j \in EntriesOf(pid) : ctrlfile[j][3] = StrField(MySite)}
        IN  /\ Cardinality(own) = 1
            /\ \A j \in own :
                  ctrlfile[j] =
                     FORMAT_LINE(ProcEntry(pid, checktime, TRUE, MySite))
            /\ checktime = now

\* A refresh read two unexpired entries of this process for this site,
\* stamped earlier, and left one entry, stamped now.
C26_Witness ==
    /\ Refreshed
    /\ Wrote
    /\ input[1].canRd
    /\ Cardinality({i \in LinesRead :
                       /\ input[1].file[i][1].n = pid
                       /\ input[1].file[i][3] = StrField(MySite)
                       /\ LineAge(i) <= releasepid}) = 2
    /\ Cardinality(EntriesOf(pid)) = 1

(***************************************************************************)
(* The refresh policy of getDelay, checked under SpecSeq.                  *)
(***************************************************************************)
\* Thread t enters getDelay in this step (from __call__ or from waittime).
EntersGetDelay(t) ==
    /\ pc[t] \in {"idle", "acquire"}
    /\ pc'[t] \in {"refresh", "delay"}

\* C27 as stated: a delay computation refreshes the registry exactly when
\* now > checktime + checkdelay.
C27_RefreshIffStale ==
    [][\A t \in Threads :
          EntersGetDelay(t) =>
              (pc'[t] = "refresh" <=> now > checktime + checkdelay)]_vars

\* C27, amended: a delay computation refreshes the registry exactly when
\* multiplicity handling is on and now > checktime + checkdelay; a refresh
\* that completes sets checktime to the current time and one that raises
\* leaves it; checktime changes otherwise only by release(), which sets it
\* to 0; and the registry file and the pid change only in a refresh, in
\* release() or by another process.
C27_LazyRefresh ==
    [][/\ \A t \in Threads :
             EntersGetDelay(t) =>
                 (pc'[t] = "refresh" <=>
                     (multiplydelay /\ now > checktime + checkdelay))
       /\ \A t \in Threads :
             /\ (pc[t] = "refresh" /\ pc'[t] = "delay") => checktime' = now
             /\ (pc[t] = "refresh" /\ pc'[t] = "raised") =>
                   (checktime' = checktime /\ ctrlfile' = ctrlfile)
       /\ checktime' # checktime =>
             \/ \E t \in Threads : pc[t] = "refresh" /\ pc'[t] = "delay"
             \/ checktime' = 0 /\ \E t \in Threads : Drop(t)
       /\ (ctrlfile' # ctrlfile \/ pid' # pid) =>
             \/ \E t \in Threads : pc[t] = "refresh" /\ pc'[t] = "delay"
             \/ \E t \in Threads : Drop(t)
             \/ PeerRefresh
      ]_vars

\* An acquire has refreshed the registry after time 0 and returned, and a
\* second delay computation, made later and within checkdelay of that
\* refresh, is past its refresh decision without having refreshed.
C27_Witness ==
    /\ multiplydelay
    /\ checktime > 0
    /\ \E k \in {"read", "write"} : lastRet[k] >= checktime
    /\ now > checktime
    /\ now <= checktime + checkdelay
    /\ pc[1] = "delay"

(***************************************************************************)
(* The size factor of an acquire, checked under Spec.                      *)
(***************************************************************************)
\* The nominal delay of a call of the given kind, with size factor nm.
DelayWithFactor(write, nm) ==
    LET base == IF write THEN writedelay ELSE delay
    IN  IF ~multiplydelay THEN base
        ELSE process_multiplicity *
                (IF base < mindelay * nm THEN mindelay * nm
                 ELSE IF base > maxdelay THEN maxdelay
                 ELSE base)

\* C28 as stated: the nominal delay from which an acquire computes its wait
\* is derived with log2(1 + size) for the size passed to this call.
C28_FactorOfThisCall ==
    [][\A t \in Threads :
          (pc[t] = "delay" /\ pc'[t] = "sleep") =>
              thisdelay'[t] =
                  DelayWithFactor(call[t].write, Log2(1 + call[t].size))]_vars

\* C28, amended: the nominal delay from which an acquire computes its wait
\* is derived with the next_multiplicity it finds, which is 1 after
\* construction and changes only when an acquire, of either kind, has
\* computed its wait: it is then log2(1 + size) of that acquire.
C28_FactorOfPreviousCall ==
    /\ next_multiplicity = 1
    /\ [][/\ \A t \in Threads :
                (pc[t] = "delay" /\ pc'[t] = "sleep") =>
                    /\ thisdelay'[t] =
                          DelayWithFactor(call[t].write, next_multiplicity)
                    /\ next_multiplicity' = Log2(1 + call[t].size)
          /\ next_multiplicity' # next_multiplicity =>
                \E t \in Threads : pc[t] = "delay" /\ pc'[t] = "sleep"
         ]_vars

\* An acquire of size 1 that follows an acquire of size 3 sleeps for a delay
\* derived with the factor 2.
C28_Witness ==
    /\ multiplydelay
    /\ \E t \in Threads :
          /\ pc[t] = "sleep"
          /\ call[t].size = 1
          /\ ~call[t].write
          /\ next_multiplicity = 1
          /\ delay < 2 * mindelay
          /\ thisdelay[t] = 2 * mindelay * process_multiplicity

(***************************************************************************)
(* The sleep of lag(), checked under Spec.                                 *)
(***************************************************************************)
\* C29: when lag() has the lock, it sleeps until the time of its call plus
\* the capped wait if it got the lock before then, and not at all if it got
\* the lock at or after that time; it returns no earlier than the end of
\* that sleep.
C29_LagSleepLessQueueing ==
    [][\A t \in Threads :
          /\ (pc[t] = "lag" /\ pc'[t] = "lagsleep") =>
                LET capped == LagDelay(retry_after, call[t].lagtime)
                    queued == now - started[t]
                IN  /\ queued < capped => wakeAt'[t] = started[t] + capped
                    /\ queued >= capped => wakeAt'[t] = now
          /\ (pc[t] = "lagsleep" /\ pc'[t] = "idle") => now >= wakeAt[t]
      ]_vars

\* A lag() got the lock later than its call plus its capped wait, and does
\* not sleep.
C29_Witness ==
    \E t \in Threads :
        /\ pc[t] = "lagsleep"
        /\ wakeAt[t] > started[t] + LagDelay(retry_after, call[t].lagtime)
        /\ wakeAt[t] <= now

(***************************************************************************)
(* lag() and the callers of the throttle, checked under Spec.              *)
(***************************************************************************)
\* C30: an acquire, read or write, made while another thread is in the wait
\* of lag() does not return while that thread is still in that wait.  When
\* two calls have been made, the lag() whose wait is going on is the one
\* that was going on when the acquire was made.
C30_LagBlocksAcquire ==
    [][\A l \in Threads, w \in Threads :
          ~ ( /\ l # w
              /\ calls = 2
              /\ pc[l] = "lagsleep"
              /\ wakeAt[l] > now
              /\ Acquiring(w)
              /\ call[w].inLag
              /\ pc[w] = "sleep"
              /\ pc'[w] = "idle" )]_vars

(***************************************************************************)
(* The time fields of the registry, checked under SpecCM.                  *)
(***************************************************************************)
\* Line j of the registry is the entry the refresh appended for itself.
OwnLine(j) ==
    /\ Refreshed
    /\ ctrlfile[j][1].n = pid
    /\ ctrlfile[j][3] = StrField(MySite)

\* The lines of the registry the call found whose time is a float.
FloatLines ==
    {i \in 1 .. Len(input[1].file) :
        /\ Len(input[1].file[i]) = 3
        /\ input[1].file[i][1].k = "int"
        /\ input[1].file[i][2].k = "float"}

\* C31 as claimed: every time field a call writes to the registry is an
\* integer, the time of the entry the process appends for itself included.
C31_AllTimesInt ==
    Wrote => \A j \in 1 .. Len(ctrlfile) : ctrlfile[j][2].k = "int"

\* C31: in the registry a call has written, the time of every entry that
\* was read and written back is an integer, and the time of the entry a
\* refresh appends for the process itself is a float; an entry whose time
\* is a float in the file is read, with its time as a whole number.
C31_OwnTimeFloat ==
    /\ Wrote =>
          \A j \in 1 .. Len(ctrlfile) :
              ctrlfile[j][2].k = IF OwnLine(j) THEN "float" ELSE "int"
    /\ (output # << >> /\ input[1].canRd) =>
          \A i \in FloatLines :
              /\ i \in LinesRead
              /\ ~output[1].entries[RankOf(i)].tfloat
              /\ output[1].entries[RankOf(i)].time = input[1].file[i][2].n

\* A refresh read the entry of a peer whose time was a float and wrote it
\* back with an integer time, beside its own entry with a float time.
C31_Witness ==
    /\ Wrote
    /\ Refreshed
    /\ \E i \in FloatLines, j \in 1 .. Len(ctrlfile) :
          /\ input[1].file[i][1].n # pid
          /\ ctrlfile[j][1].n = input[1].file[i][1].n
          /\ ctrlfile[j][3] = input[1].file[i][3]
          /\ ctrlfile[j][2] = IntField(input[1].file[i][2].n)
    /\ \E j \in 1 .. Len(ctrlfile) :
          OwnLine(j) /\ ctrlfile[j][2] = FloatField(now)

(***************************************************************************)
(* The locking discipline, checked under SpecLive.                         *)
(***************************************************************************)
\* The lock thread t is waiting for, "" when it waits for none.
WaitsForLock(t) ==
    IF pc[t] = "acquire" THEN ThisLock(call[t].write)
    ELSE IF pc[t] \in {"refresh", "setdelays"} THEN "lock"
    ELSE IF pc[t] = "lag" THEN LagLock
    ELSE ""

\* Thread t waits for a lock that thread u holds.
WaitsFor(t, u) ==
    /\ t # u
    /\ WaitsForLock(t) # ""
    /\ owner[WaitsForLock(t)] = u

\* No threads wait for locks in a circle.
NoWaitCycle ==
    \A S \in SUBSET Threads :
        S # {} => \E t \in S : \A u \in S : ~WaitsFor(t, u)

\* Thread t is inside a call; a call ends by returning or by raising the
\* IOError of a refresh.
InCall(t) == pc[t] \notin {"idle", "raised"}

\* Every wait that has been started ends before the clock of the model stops.
FiniteWaits == \A t \in Threads : wakeAt[t] <= MaxTime

\* C32: no threads ever wait for each other's locks in a circle; and, the
\* locks being fair and the waits finite, every call of acquire, lag,
\* setDelays and waittime ends.
C32_DeadlockFree ==
    /\ []NoWaitCycle
    /\ []FiniteWaits => \A t \in Threads : InCall(t) ~> ~InCall(t)

\* A thread waits for self.lock in a refresh, holding its access-kind lock,
\* while another thread sleeps in lag() holding self.lock.
C32_Witness ==
    \E t \in Threads, u \in Threads :
        /\ pc[t] = "refresh"
        /\ Acquiring(t)
        /\ owner[ThisLock(call[t].write)] = t
        /\ WaitsFor(t, u)
        /\ pc[u] = "lagsleep"
        /\ wakeAt[u] > now
        /\ wakeAt[u] <= MaxTime

(***************************************************************************)
(* The pids of processes racing on the registry, checked under SpecReg.    *)
(***************************************************************************)
\* The registry holds an entry of process p that has not expired.
LiveEntryOf(p) ==
    \E j \in 1 .. Len(ctrlfile) :
        /\ WellFormed(ctrlfile[j])
        /\ ctrlfile[j][1].n = pids[p]
        /\ now - ctrlfile[j][2].n <= releasepid

\* C33 as claimed: two processes that have taken their pids have taken
\* distinct ones, however their first checks interleaved.
C33_DistinctPids ==
    \A p \in Procs, q \in Procs :
        (p # q /\ pids[p] # 0 /\ pids[q] # 0) => pids[p] # pids[q]

\* C33: the pid a process takes in its first check differs from the pid of
\* every other process whose entry, not expired, is in the registry that
\* the check opens and reads.
C33_DistinctFromEntriesRead ==
    [][\A q \in Procs :
          (pids[q] = 0 /\ pids'[q] # 0 /\ lastOpen'[q].opened) =>
              \A p \in Procs \ {q} :
                  (pids[p] # 0 /\ LiveEntryOf(p)) => pids'[q] # pids[p]]_vars

\* A process made its first check on a registry that held the entry of
\* another process, read it, and is about to write its own entry under
\* another pid.
C33_Witness ==
    \E p \in Procs, q \in Procs :
        /\ p # q
        /\ pids[p] # 0
        /\ LiveEntryOf(p)
        /\ lastOpen[q].called /\ lastOpen[q].opened /\ ~lastOpen[q].hadpid
        /\ rpc[q].op = "init"
        /\ pids[q] > pids[p]

(***************************************************************************)
(* The size factor and the access kinds, checked under SpecSeq.            *)
(***************************************************************************)
\* C34: there is one next_multiplicity for both kinds.  An acquire of either
\* kind that has computed its wait has left log2(1 + size) of its size in
\* it; it keeps that value until an acquire, of either kind, computes its
\* wait; and that acquire, whatever its kind, derives its nominal delay
\* with the value it finds, which is the lower bound mindelay x
\* next_multiplicity of the delay when multiplicity handling is on.
C34_OneFactorForBothKinds ==
    /\ [](\A t \in Threads :
             (Acquiring(t) /\ pc[t] = "sleep") =>
                 next_multiplicity = Log2(1 + call[t].size))
    /\ [][/\ \A t \in Threads :
                (Acquiring(t) /\ pc[t] = "delay" /\ pc'[t] = "sleep") =>
                    /\ thisdelay'[t] =
                          DelayWithFactor(call[t].write, next_multiplicity)
                    /\ (multiplydelay /\ thisdelay'[t] # maxdelay * process_multiplicity)
                          => thisdelay'[t] >= mindelay * next_multiplicity
                                                 * process_multiplicity
          /\ next_multiplicity' # next_multiplicity =>
                \E t \in Threads :
                    Acquiring(t) /\ pc[t] = "delay" /\ pc'[t] = "sleep"
         ]_vars

\* The first write sleeps for a nominal delay of twice mindelay per process,
\* more than its baseline: the factor 2 was left by a read of size 3, no
\* write having computed a wait before.
C34_Witness ==
    /\ multiplydelay
    /\ lastRet["write"] = -1
    /\ lastRet["read"] >= 0
    /\ \E t \in Threads :
          /\ Acquiring(t)
          /\ call[t].write
          /\ pc[t] = "sleep"
          /\ writedelay < 2 * mindelay
          /\ thisdelay[t] = 2 * mindelay * process_multiplicity

(***************************************************************************)
(* A refresh that raises inside an acquire, checked under Spec.            *)
(***************************************************************************)
\* C35: when the refresh of an acquire raises the read error, the thread
\* holds no lock afterwards, last_read, last_write, checktime, the
\* multiplicity and next_multiplicity are what they were, the registry and
\* the pid too, and the refresh is due afterwards if it was due before (it
\* was not if another thread refreshed meanwhile): an acquire that enters
\* getDelay while it is due goes to the refresh.
C35_FailedRefreshLeavesNoTrace ==
    [][/\ \A t \in Threads :
             (Acquiring(t) /\ pc[t] = "refresh" /\ pc'[t] = "raised") =>
                 /\ \A l \in LockNames : owner'[l] # t
                 /\ owner["lock"] # t
                 /\ UNCHANGED << last_read, last_write, checktime,
                                 process_multiplicity, next_multiplicity,
                                 ctrlfile, pid, lastRet >>
                 /\ RefreshDue(multiplydelay, now, checktime)
                       => RefreshDue(multiplydelay', now', checktime')
       /\ \A u \in Threads :
             ( /\ pc[u] = "acquire" /\ pc'[u] # "acquire"
               /\ \E t \in Threads : pc[t] = "raised"
               /\ RefreshDue(multiplydelay, now, checktime) )
             => pc'[u] = "refresh"
      ]_vars

\* The refresh of an acquire has raised, and the next acquire, of the same
\* kind, has taken the lock the first one gave back and is at the refresh.
C35_Witness ==
    \E t \in Threads, u \in Threads :
        /\ pc[t] = "raised"
        /\ Acquiring(t)
        /\ Acquiring(u)
        /\ call[u].write = call[t].write
        /\ pc[u] = "refresh"
        /\ owner[ThisLock(call[u].write)] = u
        /\ RefreshDue(multiplydelay, now, checktime)

(***************************************************************************)
(* The delay computation that follows release(), checked under SpecSeq.    *)
(* time.time() is far above checkdelay on any real clock; in the model     *)
(* the clock starts at 0, and the property speaks of the times above       *)
(* checkdelay.                                                             *)
(***************************************************************************)
\* The registry holds the entry of this process for its site, stamped now.
OwnEntryStampedNow(file) ==
    \E j \in 1 .. Len(file) :
        file[j] = FORMAT_LINE(ProcEntry(pid, now, TRUE, MySite))

ConstructedWith(w) ==
    /\ calls = 0
    /\ now = 0
    /\ \E contents \in InitFiles, canRd \in BOOLEAN, canWr \in BOOLEAN :
          LET th == __init__(contents, canRd, canWr, 0, MySite, 0, w,
                             multiplydelay)
          IN  /\ ~th.raised
              /\ pid = th.pid
              /\ ctrlfile = th.file
              /\ checktime = th.checktime
              /\ process_multiplicity = th.process_multiplicity
              /\ mindelay = th.mindelay
              /\ maxdelay = th.maxdelay
              /\ delay = th.delay
              /\ writedelay = th.writedelay
              /\ last_read = th.last_read
              /\ last_write = th.last_write
              /\ next_multiplicity = th.next_multiplicity
              /\ retry_after = th.retry_after

\* C37: after Throttle(site, writedelay=w) with mindelay <= w <= maxdelay,
\* the write baseline is w.
C37_WriteDelayHonoured ==
    \A w \in WriteDelayArgs :
        (w # 0 /\ ConstructedWith(w) /\ mindelay <= w /\ w <= maxdelay)
        => writedelay = w

(***************************************************************************)
(* The delays setDelays leaves, checked under SpecSet.                     *)
(***************************************************************************)
\* C38: after a setDelays call that leaves mindelay <= maxdelay, the write
\* delay lies between them; and after setDelays(delay=d, absolute=True) with
\* d > 0, mindelay, maxdelay, delay and the write delay are all d.
C38_WriteDelayWithinBounds ==
    output # << >> =>
        /\ output[1].mindelay <= output[1].maxdelay =>
              /\ output[1].mindelay <= output[1].writedelay
              /\ output[1].writedelay <= output[1].maxdelay
        /\ (input.absolute /\ input.delay > 0) =>
              /\ output[1].mindelay = input.delay
              /\ output[1].maxdelay = input.delay
              /\ output[1].delay = input.delay
              /\ output[1].writedelay = input.delay

\* setDelays was given a write delay above maxdelay and brought it down to
\* maxdelay, mindelay and maxdelay staying as they were.
C38_Witness ==
    /\ output # << >>
    /\ ~input.absolute
    /\ input.mindelay < input.maxdelay
    /\ input.writedelay > input.maxdelay
    /\ output[1].writedelay = input.maxdelay
    /\ output[1].mindelay = input.mindelay
    /\ output[1].maxdelay = input.maxdelay

(***************************************************************************)
(* The start of the delay count, checked under SpecSeq.                    *)
(***************************************************************************)
\* C39: construction and every setDelays call leave last_read and
\* last_write at the current time; an acquire of either kind that computes
\* its wait while the timestamp of its kind is the current time waits its
\* whole nominal delay, which is more than nothing, and does not return
\* before that wait is over.
C39_DelayCountRestarts ==
    /\ last_read = now /\ last_write = now
    /\ [][/\ \A t \in Threads :
                SetDelays(t) => (last_read' = now /\ last_write' = now)
          /\ \A t \in Threads :
                ( /\ Acquiring(t) /\ pc[t] = "delay" /\ pc'[t] = "sleep"
                  /\ LastAccess(call[t].write) = now )
                => /\ thisdelay'[t] > 0
                   /\ wakeAt'[t] = now + thisdelay'[t]
          /\ \A t \in Threads :
                (Acquiring(t) /\ pc[t] = "sleep" /\ pc'[t] = "idle")
                => now >= wakeAt[t]
         ]_vars

\* After a setDelays(delay=600) made later than the construction, with the
\* clock not yet advanced, a write is sleeping for its whole nominal delay.
C39_Witness ==
    /\ now > 0
    /\ delay = 3 * Quantum
    /\ last_read = now
    /\ last_write = now
    /\ lastRet["read"] = -1
    /\ lastRet["write"] = -1
    /\ \E t \in Threads :
          /\ Acquiring(t)
          /\ call[t].write
          /\ pc[t] = "sleep"
          /\ thisdelay[t] > 0
          /\ wakeAt[t] = now + thisdelay[t]

(***************************************************************************)
(* getDelay with multiplicity handling off, checked under SpecDelay.       *)
(***************************************************************************)
\* C40: with multiplicity handling off the nominal delay is the baseline of
\* the access kind as it is, below mindelay x next_multiplicity or above
\* maxdelay as it may be, and whatever the size of the last request and the
\* process multiplicity.
C40_RawBaselineWhenOff ==
    (output # << >> /\ ~input[1].multiplydelay) =>
        /\ output[1].delay = Baseline
        /\ output[1].clamped = Baseline
        /\ \A size \in DelaySizes, procm \in DelayCounts :
              getDelay(input[1].write, input[1].delay, input[1].writedelay,
                       input[1].mindelay, input[1].maxdelay, FALSE,
                       Log2(1 + size), procm) = Baseline

\* With multiplicity handling off, a read baseline of 5, above maxdelay 4
\* and below mindelay 3 x 3 after a request of size 7, with two peers
\* counted, is the delay.
C40_Witness ==
    /\ output # << >>
    /\ ~input[1].multiplydelay
    /\ ~input[1].write
    /\ Baseline = 5
    /\ input[1].mindelay = 3
    /\ input[1].maxdelay = 4
    /\ input[1].size = 7
    /\ input[1].process_multiplicity = 3
    /\ output[1].delay = 5

=============================================================================
